---- MODULE Spec2Model ----
(***************************************************************************)
(* A model of canvas.py: the request builders (RequestBase, Request,       *)
(* RequestWithData, RequestOrderedData) and the transport helpers          *)
(* (get_all_pages, get_to_json, delete_to_json, put_to_json, post_to_json, *)
(* upload_file, progress) talking to a nondeterministic HTTP server.       *)
(*                                                                         *)
(* Python objects that can be shared (dicts and lists handed from the      *)
(* builder to a transport function, the caller's mapping given to          *)
(* add_param_dict) live in a heap and are passed by reference, so that an  *)
(* in-place change (dict.update, dict.pop, list +=) is seen through every  *)
(* reference, as in Python.                                                *)
(***************************************************************************)
EXTENDS Integers, Sequences, FiniteSets, TLC

VARIABLES
    pc,        \* where the caller / the running transport function stands
    req,       \* the builder object (kind, function, base, locashun, stuff)
    heap,      \* the shared mutable Python objects, by reference
    budget,    \* how many more builder operations the caller will make
    last,      \* history: the latest builder operation, the mappings before it,
               \* and the caller's mapping as it was when last handed over
    call,      \* the arguments of the running transport call
    calls,     \* history: the transport calls made, with their arguments as passed
    wire,      \* history: the HTTP requests issued, in order
    served,    \* history: the HTTP responses received, in order
    pages,     \* the server's chain of linked pages (paginated resource)
    loc,       \* the local variables of the running transport function
    result,    \* what the transport function returned or raised
    ret,       \* what submit returned or raised
    nsubmit,   \* history: how many times submit was called
    HAS_PANDOC, BASE_URL, TOKEN, THIS_YEAR,   \* the module's global names
    token_file,   \* history: the latest read_access_token call
    frame      \* the local variables of the running endpoint function

module_globals == <<HAS_PANDOC, BASE_URL, TOKEN, THIS_YEAR>>

vars == <<pc, req, heap, budget, last, call, calls, wire, served, pages, loc,
          result, ret, nsubmit, module_globals, token_file, frame>>

-----------------------------------------------------------------------------
(* Bounds of the model *)

MaxAdds == 3         \* builder operations per builder, builder-only runs
MaxAddsSubmit == 2   \* builder operations before a submit
MaxPages == 3        \* pages in the server's chain
MaxItems == 2        \* items on one page

-----------------------------------------------------------------------------
(* Python values *)

PyNone == [kind |-> "none", s |-> "", items |-> <<>>]
Scalar(a) == [kind |-> "scalar", s |-> a, items |-> <<>>]
PyList(xs) == [kind |-> "list", s |-> "", items |-> xs]

\* isinstance(v, list)
IsList(v) == v.kind = "list"

\* A dict is kept as the sequence of its (key, value) pairs in insertion order.
DictKeys(d) == {d[i][1] : i \in DOMAIN d}
DictHas(d, k) == \E i \in DOMAIN d : d[i][1] = k
DictIndex(d, k) == CHOOSE i \in DOMAIN d : d[i][1] = k
DictGet(d, k) == d[DictIndex(d, k)][2]

\* d[k] = v
DictSet(d, k, v) ==
    IF DictHas(d, k)
    THEN [d EXCEPT ![DictIndex(d, k)] = <<k, v>>]
    ELSE Append(d, <<k, v>>)

\* d.pop(k), the dict that remains
DictPop(d, k) == SelectSeq(d, LAMBDA p : p[1] # k)

\* d.update(h)
RECURSIVE DictUpdate(_, _)
DictUpdate(d, h) ==
    IF h = <<>> THEN d
    ELSE DictUpdate(DictSet(d, h[1][1], h[1][2]), Tail(h))

\* Heap objects: a dict or a list of (key, value) tuples.
DictObj(d) == [type |-> "dict", items |-> d]
ListObj(l) == [type |-> "list", items |-> l]
Refs == {"headers", "params", "data", "hash", "fresh"}
NoRef == "None"

-----------------------------------------------------------------------------
(* Module globals as the import leaves them, canvas.py lines 15-23 *)

DefaultBaseURL == <<"https://svsu.instructure.com", "/">>
InvalidToken == "An invalid token.  Redefine with your own"
\* int(arrow.now().format('YYYY')): the year of the import
ImportYear == 2026

-----------------------------------------------------------------------------
(* check_headers and add_item_to_possible_list *)

\* A faulty variant of check_headers that only rejects headers=None.
check_headers_none_only(hp, headers) == headers = NoRef

\* check_headers(headers) raises ValueError
check_headers_raises(hp, headers) ==
    headers = NoRef \/ ~DictHas(hp[headers].items, "Authorization")

add_item_to_possible_list(item_or_list, item) ==
    IF IsList(item_or_list)
    THEN PyList(Append(item_or_list.items, item))
    ELSE PyList(<<item_or_list, item>>)

-----------------------------------------------------------------------------
(* RequestBase *)

NoArgSeq == [given |-> FALSE, v |-> <<>>]
NoArgStr == [given |-> FALSE, v |-> ""]
Arg(v) == [given |-> TRUE, v |-> v]

NoStuff == [w \in {} |-> NoRef]
NoReq == [kind |-> "none", function |-> "none", base |-> <<>>, locashun |-> <<>>,
          token |-> "", stuff |-> NoStuff]

\* A faulty variant of TOKEN_after_init: the token given becomes the module's.
TOKEN_after_init_storing(access_token) ==
    IF access_token.given THEN access_token.v ELSE TOKEN

\* RequestBase.__init__ binds self.base and self.token (lines 60-61) and has
\* no global statement: the module's TOKEN is after it what it was before
TOKEN_after_init(access_token) == TOKEN

\* RequestBase.__init__: the state of the new object and of the heap
RequestBase_init(hp, locashun, base, access_token) ==
    LET token == IF access_token.given THEN access_token.v ELSE TOKEN
    IN [req |-> [kind |-> "RequestBase", function |-> "none",
                 base |-> IF base.given THEN base.v ELSE BASE_URL,
                 locashun |-> locashun,
                 token |-> token,
                 stuff |-> [w \in {"headers"} |-> "headers"]],
        heap |-> [hp EXCEPT !["headers"] =
                     DictObj(<<<<"Authorization", Scalar("Bearer " \o token)>>>>)]]

\* RequestBase.URL
URL(r) ==
    LET locashun == IF r.locashun[1] = "/" THEN Tail(r.locashun) ELSE r.locashun
        sep == IF r.base[Len(r.base)] = "/" THEN <<>> ELSE <<"/">>
    IN r.base \o sep \o locashun

\* stuff[which_stuff] = ref
StuffSet(stuff, which_stuff, ref) ==
    [w \in DOMAIN stuff \cup {which_stuff} |->
        IF w = which_stuff THEN ref ELSE stuff[w]]

\* A faulty variant of base_request_add_to_dict that ignores the overwrite flag.
add_to_dict_ignoring_overwrite(stuff, hp, which_stuff, key, value, overwrite) ==
    IF which_stuff \notin DOMAIN stuff
    THEN [stuff |-> StuffSet(stuff, which_stuff, "fresh"),
          heap |-> [hp EXCEPT !["fresh"] = DictObj(<<<<key, value>>>>)]]
    ELSE IF DictHas(hp[stuff[which_stuff]].items, key)
    THEN [stuff |-> stuff, heap |-> hp]
    ELSE [stuff |-> stuff,
          heap |-> [hp EXCEPT ![stuff[which_stuff]].items = DictSet(@, key, value)]]

\* RequestBase.base_request_add_to_dict: the new stuff and heap.  The list that
\* add_item_to_possible_list builds (line 80) is not stored anywhere.
base_request_add_to_dict(stuff, hp, which_stuff, key, value, overwrite) ==
    IF which_stuff \notin DOMAIN stuff
    THEN [stuff |-> StuffSet(stuff, which_stuff, "fresh"),
          heap |-> [hp EXCEPT !["fresh"] = DictObj(<<<<key, value>>>>)]]
    ELSE IF ~overwrite /\ DictHas(hp[stuff[which_stuff]].items, key)
    THEN LET discarded == add_item_to_possible_list(
                              DictGet(hp[stuff[which_stuff]].items, key), value)
         IN [stuff |-> stuff, heap |-> hp]
    ELSE [stuff |-> stuff,
          heap |-> [hp EXCEPT ![stuff[which_stuff]].items = DictSet(@, key, value)]]

\* A faulty variant of base_request_add_optional_to_dict without the None test.
add_optional_without_none_test(stuff, hp, which_stuff, key, value, overwrite) ==
    base_request_add_to_dict(stuff, hp, which_stuff, key, value, overwrite)

\* RequestBase.base_request_add_optional_to_dict
base_request_add_optional_to_dict(stuff, hp, which_stuff, key, value, overwrite) ==
    IF value # PyNone
    THEN base_request_add_to_dict(stuff, hp, which_stuff, key, value, overwrite)
    ELSE [stuff |-> stuff, heap |-> hp]

\* A faulty variant of base_request_add_dict_to_dict that rebinds the entry to
\* the caller's mapping instead of updating the builder's own.
add_dict_rebinding(stuff, hp, which_stuff, hash) ==
    [stuff |-> StuffSet(stuff, which_stuff, hash), heap |-> hp]

\* RequestBase.base_request_add_dict_to_dict; hash is a reference
base_request_add_dict_to_dict(stuff, hp, which_stuff, hash) ==
    IF which_stuff \notin DOMAIN stuff \/ hp[stuff[which_stuff]].type # "dict"
    THEN [stuff |-> StuffSet(stuff, which_stuff, "fresh"),
          heap |-> [hp EXCEPT !["fresh"] = DictObj(hp[hash].items)]]
    ELSE [stuff |-> stuff,
          heap |-> [hp EXCEPT ![stuff[which_stuff]].items =
                                  DictUpdate(@, hp[hash].items)]]

-----------------------------------------------------------------------------
(* Request, RequestWithData, RequestOrderedData: construction *)

\* Request.__init__
Request_init(hp, function, locashun, base, access_token) ==
    LET b == RequestBase_init(hp, locashun, base, access_token)
    IN [req |-> [b.req EXCEPT !.kind = "Request", !.function = function,
                              !.stuff = StuffSet(@, "params", "params")],
        heap |-> [b.heap EXCEPT !["params"] = DictObj(<<>>)]]

\* RequestWithData.__init__
RequestWithData_init(hp, function, locashun, base, access_token) ==
    LET b == Request_init(hp, function, locashun, base, access_token)
    IN [req |-> [b.req EXCEPT !.kind = "RequestWithData",
                              !.stuff = StuffSet(@, "data", "data")],
        heap |-> [b.heap EXCEPT !["data"] = DictObj(<<>>)]]

\* RequestOrderedData.__init__
RequestOrderedData_init(hp, function, locashun, base, access_token) ==
    LET b == Request_init(hp, function, locashun, base, access_token)
    IN [req |-> [b.req EXCEPT !.kind = "RequestOrderedData",
                              !.stuff = StuffSet(@, "data", "data")],
        heap |-> [b.heap EXCEPT !["data"] = ListObj(<<>>)]]

-----------------------------------------------------------------------------
(* The inputs the caller draws from *)

Keys == {"k1", "k2"}
InputValues == {PyNone, Scalar(""), Scalar("v1"), Scalar("v2")}
Hashes == { <<>>,
            << <<"k1", Scalar("v2")>> >>,
            << <<"k2", Scalar("v1")>>, <<"k1", Scalar("v1")>> >> }
Locashuns == { <<"api/v1/x">>, <<"/", "api/v1/x">> }
BaseArgs == { NoArgSeq, Arg(<<"https://canvas.test">>) }
TokenArgs == { NoArgStr, Arg("tok") }

Functions == {"get_all_pages", "get_to_json", "delete_to_json", "put_to_json",
              "post_to_json", "upload_file"}
\* the transport functions that take a data argument (lines 234, 255, 276)
TakesData == {"put_to_json", "post_to_json", "upload_file"}

-----------------------------------------------------------------------------
(* Initial state: no builder, nothing called *)

Free == [type |-> "free", items |-> <<>>]
NoLast == [op |-> "none", key |-> "", value |-> PyNone, overwrite |-> FALSE,
           hash |-> <<>>, params |-> <<>>, data |-> <<>>, which |-> "none",
           given |-> <<>>]
NoCall == [function |-> "none", url |-> <<>>, params |-> NoRef, data |-> NoRef,
           headers |-> NoRef, via |-> "none"]
NoLoc == [url |-> <<>>, first |-> TRUE, json |-> <<>>, local_file |-> PyNone,
          json1 |-> [kind |-> "none", items |-> <<>>], polls |-> 0]
NoResult == [kind |-> "none", exc |-> "", val |-> <<>>]
\* no read_access_token call yet
NoTokenFile == [n |-> 0, status |-> "none", content |-> <<>>, before |-> "",
                raised |-> FALSE]
\* no endpoint function running
NoFrame == [function |-> "none"]

InitWith(b) ==
    /\ pc = "idle"
    /\ req = NoReq
    /\ heap = [r \in Refs |-> Free]
    /\ budget = b
    /\ last = NoLast
    /\ call = NoCall
    /\ calls = <<>>
    /\ wire = <<>>
    /\ served = <<>>
    /\ pages = <<>>
    /\ loc = NoLoc
    /\ result = NoResult
    /\ ret = NoResult
    /\ nsubmit = 0
    /\ HAS_PANDOC = TRUE
    /\ BASE_URL = DefaultBaseURL
    /\ TOKEN = InvalidToken
    /\ THIS_YEAR = ImportYear
    /\ token_file = NoTokenFile
    /\ frame = NoFrame

transport == <<call, calls, wire, served, pages, loc, result, ret, nsubmit>>

DictOps == {"add_param_dict", "add_data_dict", "ordered_add_data_dict"}

\* the contents of stuff[which], () when the builder has no such entry
Stored(which) ==
    IF which \in DOMAIN req.stuff THEN heap[req.stuff[which]].items ELSE <<>>

Before(op, key, value, overwrite, hash) ==
    [op |-> op, key |-> key, value |-> value, overwrite |-> overwrite,
     hash |-> hash, params |-> Stored("params"), data |-> Stored("data"),
     which |-> IF op \in {"add_param", "add_optional_param", "add_param_dict"}
               THEN "params" ELSE "data",
     given |-> IF op \in DictOps THEN hash ELSE last.given]

-----------------------------------------------------------------------------
(* The caller constructs a builder *)

Construct(functions, locashuns, bases, tokens) ==
    /\ pc = "idle"
    /\ \E kind \in {"Request", "RequestWithData", "RequestOrderedData"},
          function \in functions, locashun \in locashuns,
          base \in bases, access_token \in tokens :
          /\ kind # "Request" => function \in TakesData
          /\ LET new == CASE kind = "Request" ->
                               Request_init(heap, function, locashun, base, access_token)
                          [] kind = "RequestWithData" ->
                               RequestWithData_init(heap, function, locashun, base,
                                                    access_token)
                          [] kind = "RequestOrderedData" ->
                               RequestOrderedData_init(heap, function, locashun, base,
                                                       access_token)
             IN /\ req' = new.req
                /\ heap' = new.heap
          /\ TOKEN' = TOKEN_after_init(access_token)
    /\ pc' = "building"
    /\ UNCHANGED <<budget, last, HAS_PANDOC, BASE_URL, THIS_YEAR, token_file, frame>>
    /\ UNCHANGED transport

-----------------------------------------------------------------------------
(* The builder's add operations *)

CanAdd == pc = "building" /\ budget > 0

Added(new, op, key, value, overwrite, hash) ==
    /\ req' = [req EXCEPT !.stuff = new.stuff]
    /\ heap' = new.heap
    /\ last' = Before(op, key, value, overwrite, hash)
    /\ budget' = budget - 1
    /\ pc' = pc
    /\ UNCHANGED <<module_globals, token_file, frame>>
    /\ UNCHANGED transport

\* Request.add_param
add_param(keys, values) ==
    /\ CanAdd
    /\ \E key \in keys, value \in values, overwrite \in BOOLEAN :
          Added(base_request_add_to_dict(req.stuff, heap, "params", key, value,
                                         overwrite),
                "add_param", key, value, overwrite, <<>>)

\* Request.add_optional_param
add_optional_param(keys, values) ==
    /\ CanAdd
    /\ \E key \in keys, value \in values, overwrite \in BOOLEAN :
          Added(base_request_add_optional_to_dict(req.stuff, heap, "params", key,
                                                  value, overwrite),
                "add_optional_param", key, value, overwrite, <<>>)

\* Request.add_param_dict: the caller's mapping is the heap object "hash"
add_param_dict(hashes) ==
    /\ CanAdd
    /\ \E h \in hashes :
          LET hp == [heap EXCEPT !["hash"] = DictObj(h)]
          IN Added(base_request_add_dict_to_dict(req.stuff, hp, "params", "hash"),
                   "add_param_dict", "", PyNone, FALSE, h)

\* RequestWithData.add_data
add_data(keys, values) ==
    /\ CanAdd
    /\ req.kind = "RequestWithData"
    /\ \E key \in keys, value \in values, overwrite \in BOOLEAN :
          Added(base_request_add_to_dict(req.stuff, heap, "data", key, value,
                                         overwrite),
                "add_data", key, value, overwrite, <<>>)

\* RequestWithData.add_optional_data
add_optional_data(keys, values) ==
    /\ CanAdd
    /\ req.kind = "RequestWithData"
    /\ \E key \in keys, value \in values, overwrite \in BOOLEAN :
          Added(base_request_add_optional_to_dict(req.stuff, heap, "data", key,
                                                  value, overwrite),
                "add_optional_data", key, value, overwrite, <<>>)

\* RequestWithData.add_data_dict
add_data_dict(hashes) ==
    /\ CanAdd
    /\ req.kind = "RequestWithData"
    /\ \E h \in hashes :
          LET hp == [heap EXCEPT !["hash"] = DictObj(h)]
          IN Added(base_request_add_dict_to_dict(req.stuff, hp, "data", "hash"),
                   "add_data_dict", "", PyNone, FALSE, h)

\* A faulty variant of ListExtend that drops the pairs stored under a key of
\* the new pairs.
ListExtendReplacing(stuff, hp, pairs) ==
    [stuff |-> stuff,
     heap |-> [hp EXCEPT ![stuff["data"]].items =
                 SelectSeq(@, LAMBDA p : ~DictHas(pairs, p[1])) \o pairs]]

\* self.stuff['data'] += pairs
ListExtend(stuff, hp, pairs) ==
    [stuff |-> stuff,
     heap |-> [hp EXCEPT ![stuff["data"]].items = @ \o pairs]]

\* RequestOrderedData.add_data
ordered_add_data(keys, values) ==
    /\ CanAdd
    /\ req.kind = "RequestOrderedData"
    /\ \E key \in keys, value \in values :
          Added(ListExtend(req.stuff, heap, << <<key, value>> >>),
                "ordered_add_data", key, value, FALSE, <<>>)

\* RequestOrderedData.add_optional_data
ordered_add_optional_data(keys, values) ==
    /\ CanAdd
    /\ req.kind = "RequestOrderedData"
    /\ \E key \in keys, value \in values :
          Added(IF value # PyNone
                THEN ListExtend(req.stuff, heap, << <<key, value>> >>)
                ELSE [stuff |-> req.stuff, heap |-> heap],
                "ordered_add_optional_data", key, value, FALSE, <<>>)

\* RequestOrderedData.add_data_dict
ordered_add_data_dict(hashes) ==
    /\ CanAdd
    /\ req.kind = "RequestOrderedData"
    /\ \E h \in hashes :
          LET hp == [heap EXCEPT !["hash"] = DictObj(h)]
          IN Added(ListExtend(req.stuff, hp, hp["hash"].items),
                   "ordered_add_data_dict", "", PyNone, FALSE, h)

BuilderOp(pkeys, dkeys, values, hashes) ==
    \/ add_param(pkeys, values)
    \/ add_optional_param(pkeys, values)
    \/ add_param_dict(hashes)
    \/ add_data(dkeys, values)
    \/ add_optional_data(dkeys, values)
    \/ add_data_dict(hashes)
    \/ ordered_add_data(dkeys, values)
    \/ ordered_add_optional_data(dkeys, values)
    \/ ordered_add_data_dict(hashes)

-----------------------------------------------------------------------------
(* The builder alone: construct, then up to MaxAdds add operations *)

InitBuilder == InitWith(MaxAdds)
NextBuilder ==
    \/ Construct({"post_to_json"}, {<<"api/v1/x">>}, {NoArgSeq}, {NoArgStr})
    \/ BuilderOp(Keys, Keys, InputValues, Hashes)
SpecBuilder == InitBuilder /\ [][NextBuilder]_vars

-----------------------------------------------------------------------------
(* The HTTP server, as the requests library shows it to the caller *)

\* status codes the server answers with
Statuses == {200, 304, 404, 500}

\* A faulty variant of raise_for_status_raises for which only server errors
\* are HTTP errors.
raise_for_status_5xx_only(status) == 500 <= status /\ status < 600

\* Response.raise_for_status() raises HTTPError: requests does so for the
\* client errors 4xx and the server errors 5xx, and for no other status.
raise_for_status_raises(status) == 400 <= status /\ status < 600

\* JSON documents: a list of items, an object (key, value pairs), or a body
\* that is no JSON at all, for which Response.json() raises.
JsonList(xs) == [kind |-> "list", items |-> xs]
JsonObject(ps) == [kind |-> "dict", items |-> ps]
NotJson == [kind |-> "notjson", items |-> <<>>]

UploadURL == <<"https://files.test", "/", "upload">>
UploadParams == << <<"key", Scalar("signed")>> >>
UploadInitBody == JsonObject(<< <<"upload_url", UploadURL>>,
                               <<"upload_params", UploadParams>> >>)
ErrorBody == JsonObject(<< <<"errors", "failed">> >>)
Bodies == {UploadInitBody, ErrorBody, JsonList(<<"a", "b">>), NotJson}

\* What one request can meet: no response at all (a connection error), or a
\* response with a status and a body.
NoResponse == [answered |-> FALSE, status |-> 0, body |-> NotJson,
               next |-> <<>>, url |-> <<>>]
Response(status, body, next, url) ==
    [answered |-> TRUE, status |-> status, body |-> body, next |-> next, url |-> url]

\* The URL a request is sent to and Response.url reports: the URL given, with
\* the query parameters encoded into it when there are any.
PreparedURL(url, params) ==
    IF params.type = "none" \/ params.items = <<>> THEN url
    ELSE url \o <<"?", params.items>>

\* the object behind an argument, None for no argument
NoneObj == [type |-> "none", items |-> <<>>]
Snap(hp, ref) == IF ref = NoRef THEN NoneObj ELSE hp[ref]

\* one HTTP request as the server sees it
HttpRequest(verb, url, params, data, headers, files) ==
    [verb |-> verb, url |-> url, params |-> params, data |-> data,
     headers |-> headers, files |-> files]

\* results of a call
Returned(v) == [kind |-> "return", exc |-> "", val |-> v]
Raised(e) == [kind |-> "raise", exc |-> e, val |-> <<>>]
Generator == [kind |-> "generator", exc |-> "", val |-> <<>>]

-----------------------------------------------------------------------------
(* The paginated resource: a chain of linked pages *)

ItemName(i, j) == "item_" \o ToString(i) \o "_" \o ToString(j)
PageURL(i) == <<"https://canvas.test", "/", "api/v1/x", "?page=" \o ToString(i)>>

\* what page i of a chain can be: k items, an error object, or no JSON
PageOptions(i) ==
    { [status |-> 200, body |-> JsonList([j \in 1..k |-> ItemName(i, j)])] :
        k \in 0..MaxItems }
    \cup { [status |-> 500, body |-> ErrorBody], [status |-> 502, body |-> NotJson] }

RECURSIVE ChainsOfLen(_)
ChainsOfLen(n) ==
    IF n = 0 THEN { <<>> }
    ELSE { Append(c, p) : c \in ChainsOfLen(n - 1), p \in PageOptions(n) }

Chains == UNION { ChainsOfLen(n) : n \in 1..MaxPages }

\* the page a URL names: the start URL names page 1
ServerPage(url) ==
    IF \E i \in 2..(MaxPages + 1) : url = PageURL(i)
    THEN CHOOSE i \in 2..(MaxPages + 1) : url = PageURL(i)
    ELSE 1

\* the server's answer to GET url: the page and, unless it is the last of the
\* chain, the link to the next page
ServePage(chain, url, sent) ==
    LET i == ServerPage(url)
    IN Response(chain[i].status, chain[i].body,
                IF i < Len(chain) THEN PageURL(i + 1) ELSE <<>>, sent)

-----------------------------------------------------------------------------
(* get_all_pages, lines 162-189 *)

Done(res) ==
    /\ result' = res
    /\ pc' = "done"

\* A faulty variant of Accumulate that keeps the latest page only.
AccumulateLatestOnly(json, body) ==
    IF body.kind = "dict" THEN [i \in DOMAIN body.items |-> body.items[i][1]]
    ELSE body.items

\* json += resp.json() (line 185): a list is appended item by item, and so are
\* the keys of an object
Accumulate(json, body) ==
    IF body.kind = "dict"
    THEN json \o [i \in DOMAIN body.items |-> body.items[i][1]]
    ELSE json \o body.items

\* lines 176-182
get_all_pages_start ==
    /\ pc = "get_all_pages"
    /\ IF check_headers_raises(heap, call.headers)
       THEN /\ Done(Raised("ValueError"))
            /\ UNCHANGED loc
       ELSE /\ loc' = [loc EXCEPT !.url = call.url, !.json = <<>>, !.first = TRUE]
            /\ pc' = "get_all_pages_loop"
            /\ UNCHANGED result
    /\ UNCHANGED <<module_globals, token_file, frame>>
    /\ UNCHANGED <<req, heap, budget, last, call, calls, wire, served, pages,
                   ret, nsubmit>>

\* A faulty variant of no_next_link for which every page is the last.
no_next_link_always(resp) == TRUE

\* 'next' not in resp.links (line 186)
no_next_link(resp) == resp.next = <<>>

\* A faulty variant of params_sent that sends the caller's mapping every time.
params_sent_every_turn(hp, first, params) ==
    IF params # NoRef THEN hp[params] ELSE DictObj(<<>>)

\* params as a turn of the loop sends it: the caller's mapping, or {} for None
\* (lines 181-182), in the first turn and {} afterwards (line 189)
params_sent(hp, first, params) ==
    IF first /\ params # NoRef THEN hp[params] ELSE DictObj(<<>>)

\* one turn of the loop, lines 184-189
get_all_pages_loop ==
    /\ pc = "get_all_pages_loop"
    /\ LET params == params_sent(heap, loc.first, call.params)
           sent == HttpRequest("GET", loc.url, params, NoneObj,
                               Snap(heap, call.headers), PyNone)
       IN /\ wire' = Append(wire, sent)
          /\ \E answered \in BOOLEAN :
                LET resp == IF answered
                            THEN ServePage(pages, loc.url,
                                           PreparedURL(loc.url, params))
                            ELSE NoResponse
                IN /\ served' = Append(served, resp)
                   /\ IF ~answered
                      THEN Done(Raised("ConnectionError")) /\ UNCHANGED loc
                      ELSE IF resp.body.kind = "notjson"
                      THEN Done(Raised("JSONDecodeError")) /\ UNCHANGED loc
                      ELSE IF no_next_link(resp)
                      THEN /\ Done(Returned(Accumulate(loc.json, resp.body)))
                           /\ loc' = [loc EXCEPT
                                        !.json = Accumulate(loc.json, resp.body)]
                      ELSE /\ loc' = [loc EXCEPT
                                        !.json = Accumulate(loc.json, resp.body),
                                        !.url = resp.next,
                                        !.first = FALSE]
                           /\ pc' = pc
                           /\ UNCHANGED result
    /\ UNCHANGED <<module_globals, token_file, frame>>
    /\ UNCHANGED <<req, heap, budget, last, call, calls, pages, ret, nsubmit>>

-----------------------------------------------------------------------------
(* get_to_json, delete_to_json, put_to_json, post_to_json, lines 192-273 *)

\* what a request that is not to the paginated resource can meet
Outcomes(sent, bodies) ==
    {NoResponse} \cup
    { Response(status, body, <<>>, sent) : status \in Statuses, body \in bodies }

\* the documents the server has for a URL: user profiles, a calendar event,
\* or anything
Profile(login_id, id) == JsonObject(<< <<"login_id", login_id>>, <<"id", id>> >>)
ProfileBodies ==
    { Profile("jdoe", "17"), Profile("jroe", "18"),
      JsonObject(<< <<"login_id", "jdoe">> >>), JsonList(<<"a", "b">>), NotJson }
EventBody == JsonObject(<< <<"id", "1">> >>)
BodiesAt(url) ==
    IF url[Len(url)] = "/profile" THEN ProfileBodies
    ELSE IF url[Len(url)] = "api/v1/calendar_events.json" THEN {EventBody}
    ELSE Bodies

\* A faulty variant of ErrorRecord that leaves the URL out.
ErrorRecordWithoutURL(status, url) == JsonObject(<< <<"Error", status>> >>)

\* {'Error': err.response.status_code, 'URL': resp.url}
ErrorRecord(status, url) == JsonObject(<< <<"Error", status>>, <<"URL", url>> >>)

\* the try / except / return of the four functions, from the response on
to_json_result(resp) ==
    IF ~resp.answered THEN Raised("ConnectionError")
    ELSE IF raise_for_status_raises(resp.status)
    THEN Returned(ErrorRecord(resp.status, resp.url))
    ELSE IF resp.body.kind = "notjson" THEN Raised("JSONDecodeError")
    ELSE Returned(resp.body)

to_json(function, verb, sends_data) ==
    /\ pc = function
    /\ IF check_headers_raises(heap, call.headers)
       THEN /\ Done(Raised("ValueError"))
            /\ UNCHANGED <<wire, served>>
       ELSE LET params == Snap(heap, call.params)
                sent == HttpRequest(verb, call.url, params,
                                    IF sends_data THEN Snap(heap, call.data)
                                    ELSE NoneObj,
                                    Snap(heap, call.headers), PyNone)
            IN /\ wire' = Append(wire, sent)
               /\ \E resp \in Outcomes(PreparedURL(call.url, params),
                                        BodiesAt(call.url)) :
                     /\ served' = Append(served, resp)
                     /\ Done(to_json_result(resp))
    /\ UNCHANGED <<module_globals, token_file, frame>>
    /\ UNCHANGED <<req, heap, budget, last, call, calls, pages, loc, ret, nsubmit>>

get_to_json == to_json("get_to_json", "GET", FALSE)
delete_to_json == to_json("delete_to_json", "DELETE", FALSE)
put_to_json == to_json("put_to_json", "PUT", TRUE)
post_to_json == to_json("post_to_json", "POST", TRUE)

-----------------------------------------------------------------------------
(* upload_file, lines 276-315 *)

\* lines 288-293: the precondition checks and data.pop('local_file')
upload_file_start ==
    /\ pc = "upload_file"
    /\ IF check_headers_raises(heap, call.headers)
       THEN Done(Raised("ValueError")) /\ UNCHANGED <<heap, loc>>
       ELSE IF call.data = NoRef
       THEN Done(Raised("TypeError")) /\ UNCHANGED <<heap, loc>>
       ELSE IF heap[call.data].type # "dict"
               \/ ~DictHas(heap[call.data].items, "local_file")
       THEN Done(Raised("ValueError")) /\ UNCHANGED <<heap, loc>>
       ELSE /\ loc' = [loc EXCEPT
                         !.local_file = DictGet(heap[call.data].items, "local_file")]
            /\ heap' = [heap EXCEPT ![call.data].items = DictPop(@, "local_file")]
            /\ pc' = "upload_file_init"
            /\ UNCHANGED result
    /\ UNCHANGED <<module_globals, token_file, frame>>
    /\ UNCHANGED <<req, budget, last, call, calls, wire, served, pages, ret, nsubmit>>

\* json1[key] raises: json1 is no object, or has no such key
Subscript_raises(json, key) == json.kind # "dict" \/ ~DictHas(json.items, key)

\* lines 297-304: the first POST, to the URL given
upload_file_init ==
    /\ pc = "upload_file_init"
    /\ LET params == Snap(heap, call.params)
           sent == HttpRequest("POST", call.url, params, Snap(heap, call.data),
                               Snap(heap, call.headers), PyNone)
       IN /\ wire' = Append(wire, sent)
          /\ \E resp \in Outcomes(PreparedURL(call.url, params), Bodies) :
                /\ served' = Append(served, resp)
                /\ IF ~resp.answered
                   THEN Done(Raised("ConnectionError")) /\ UNCHANGED loc
                   ELSE IF raise_for_status_raises(resp.status)
                   THEN Done(Raised("HTTPError")) /\ UNCHANGED loc
                   ELSE IF resp.body.kind = "notjson"
                   THEN Done(Raised("JSONDecodeError")) /\ UNCHANGED loc
                   ELSE IF resp.body.kind # "dict"
                   THEN Done(Raised("TypeError")) /\ UNCHANGED loc
                   ELSE IF \/ Subscript_raises(resp.body, "upload_url")
                           \/ Subscript_raises(resp.body, "upload_params")
                   THEN Done(Raised("KeyError")) /\ UNCHANGED loc
                   ELSE /\ loc' = [loc EXCEPT !.json1 = resp.body]
                        /\ pc' = "upload_file_upload"
                        /\ UNCHANGED result
    /\ UNCHANGED <<module_globals, token_file, frame>>
    /\ UNCHANGED <<req, heap, budget, last, call, calls, pages, ret, nsubmit>>

\* {'init': json1, 'upload': json2}
UploadResult(json1, json2) ==
    JsonObject(<< <<"init", json1>>, <<"upload", json2>> >>)

\* A faulty variant of UploadRequest that posts the file to upload_url
\* without the upload_params of the first step.
UploadRequestWithoutParams(json1, local_file) ==
    HttpRequest("POST", DictGet(json1.items, "upload_url"), NoneObj,
                NoneObj, NoneObj, local_file)

\* requests.post(upload_url, data=upload_params, files={'file': file})
UploadRequest(json1, local_file) ==
    HttpRequest("POST", DictGet(json1.items, "upload_url"), NoneObj,
                DictObj(DictGet(json1.items, "upload_params")), NoneObj,
                local_file)

\* lines 306-315: open the local file and the second POST, to upload_url
upload_file_upload ==
    /\ pc = "upload_file_upload"
    /\ \E readable \in BOOLEAN :
          IF loc.local_file.kind # "scalar"
          THEN Done(Raised("TypeError")) /\ UNCHANGED <<wire, served>>
          ELSE IF ~readable \/ loc.local_file.s = ""
          THEN Done(Raised("FileNotFoundError")) /\ UNCHANGED <<wire, served>>
          ELSE LET sent == UploadRequest(loc.json1, loc.local_file)
               IN /\ wire' = Append(wire, sent)
                  /\ \E resp \in Outcomes(sent.url, Bodies) :
                        /\ served' = Append(served, resp)
                        /\ IF ~resp.answered
                           THEN Done(Raised("ConnectionError"))
                           ELSE IF raise_for_status_raises(resp.status)
                           THEN Done(Raised("HTTPError"))
                           ELSE IF resp.body.kind = "notjson"
                           THEN Done(Raised("JSONDecodeError"))
                           ELSE Done(Returned(UploadResult(loc.json1, resp.body)))
    /\ UNCHANGED <<module_globals, token_file, frame>>
    /\ UNCHANGED <<req, heap, budget, last, call, calls, pages, loc, ret, nsubmit>>

-----------------------------------------------------------------------------
(* progress, lines 318-334: a generator.  Calling it runs none of its body; *)
(* each next() runs it up to the next yield.                               *)

MaxPolls == 3
WorkflowStates == {"queued", "running", "completed"}
ProgressBodies ==
    { JsonObject(<< <<"workflow_state", ws>> >>) : ws \in WorkflowStates }

\* lines 328-331: one query, up to the yield
ProgressQuery ==
    LET sent == HttpRequest("GET", call.url, NoneObj, NoneObj,
                            Snap(heap, call.headers), PyNone)
    IN /\ wire' = Append(wire, sent)
       /\ \E resp \in Outcomes(call.url, ProgressBodies) :
             /\ served' = Append(served, resp)
             /\ IF ~resp.answered
                THEN Done(Raised("ConnectionError")) /\ UNCHANGED loc
                ELSE IF raise_for_status_raises(resp.status)
                THEN Done(Raised("HTTPError")) /\ UNCHANGED loc
                ELSE /\ result' = [kind |-> "yield", exc |-> "", val |-> resp.body]
                     /\ loc' = [loc EXCEPT !.json1 = resp.body, !.polls = @ + 1]
                     /\ pc' = "progress_yielded"

\* A faulty variant of progress_breaks that goes on only while queued.
progress_breaks_unless_queued(status) == status # "queued"

\* line 333: the loop ends
progress_breaks(status) == status # "queued" /\ status # "running"

\* next() on the generator. The first runs lines 325-331, a later one 332-334
\* and, unless the loop breaks, 328-331 again.  The consumer pulls as long as
\* that takes no more than MaxPolls queries.
progress_next ==
    /\ \/ /\ pc = "progress_created"
          /\ IF check_headers_raises(heap, call.headers)
             THEN Done(Raised("ValueError")) /\ UNCHANGED <<wire, served, loc>>
             ELSE ProgressQuery
       \/ /\ pc = "progress_yielded"
          /\ LET status == DictGet(loc.json1.items, "workflow_state")
             IN IF progress_breaks(status)
                THEN Done(Raised("StopIteration")) /\ UNCHANGED <<wire, served, loc>>
                ELSE loc.polls < MaxPolls /\ ProgressQuery
    /\ UNCHANGED <<module_globals, token_file, frame>>
    /\ UNCHANGED <<req, heap, budget, last, call, calls, pages, ret, nsubmit>>

-----------------------------------------------------------------------------
(* The caller calls a transport function directly, with its own arguments *)

DirectURL == <<"https://canvas.test", "/", "api/v1/x">>
HeaderArgs == { NoneObj,
                DictObj(<< <<"Accept", Scalar("application/json")>> >>),
                DictObj(<< <<"Authorization", Scalar("Bearer tok")>> >>) }
ParamArgs == { NoneObj, DictObj(<< <<"k1", Scalar("v1")>> >>) }
DataArgs == { NoneObj,
              DictObj(<< <<"k1", Scalar("v1")>> >>),
              DictObj(<< <<"local_file", Scalar("/tmp/f")>>, <<"k1", Scalar("v1")>> >>) }

ArgRef(obj, ref) == IF obj.type = "none" THEN NoRef ELSE ref
ArgObj(obj) == IF obj.type = "none" THEN Free ELSE obj

\* after the call statement: inside the function, or, for the generator
\* function progress, back in the caller with a generator object
Entered(function) ==
    IF function = "progress"
    THEN pc' = "progress_created" /\ result' = Generator
    ELSE pc' = function /\ result' = NoResult

DirectCall ==
    /\ pc = "idle"
    /\ \E function \in Functions \cup {"progress"}, headers \in HeaderArgs,
          params \in ParamArgs, data \in DataArgs :
          /\ function \notin TakesData => data = NoneObj
          /\ function = "progress" => params = NoneObj
          /\ heap' = [heap EXCEPT !["headers"] = ArgObj(headers),
                                  !["params"] = ArgObj(params),
                                  !["data"] = ArgObj(data)]
          /\ call' = [function |-> function, url |-> DirectURL,
                      params |-> ArgRef(params, "params"),
                      data |-> ArgRef(data, "data"),
                      headers |-> ArgRef(headers, "headers"),
                      via |-> "direct"]
          /\ calls' = Append(calls, [function |-> function, url |-> DirectURL,
                                     params |-> params, data |-> data,
                                     headers |-> headers])
          /\ pages' \in IF function = "get_all_pages" THEN Chains ELSE { <<>> }
          /\ Entered(function)
    /\ UNCHANGED <<module_globals, token_file, frame>>
    /\ UNCHANGED <<req, budget, last, wire, served, loc, ret, nsubmit>>

Transport ==
    \/ get_all_pages_start \/ get_all_pages_loop
    \/ get_to_json \/ delete_to_json \/ put_to_json \/ post_to_json
    \/ upload_file_start \/ upload_file_init \/ upload_file_upload

-----------------------------------------------------------------------------
(* The transport functions called directly *)

Init == InitWith(0)
Next == DirectCall \/ Transport \/ progress_next
Spec == Init /\ [][Next]_vars

\* the same with a consumer of the progress generator that keeps pulling
SpecPulling == Spec /\ WF_vars(progress_next)

-----------------------------------------------------------------------------
(* submit, lines 114-117, 134-137, 155-158 *)

CallArgs(function, url, params, data, headers) ==
    [function |-> function, url |-> url, params |-> params, data |-> data,
     headers |-> headers]

\* Request.submit: self.function(self.URL(), params=..., headers=...)
Request_submit(r) ==
    CallArgs(r.function, URL(r), r.stuff["params"], NoRef, r.stuff["headers"])

\* A faulty variant of RequestWithData_submit that passes no data.
RequestWithData_submit_without_data(r) ==
    CallArgs(r.function, URL(r), r.stuff["params"], NoRef, r.stuff["headers"])

\* RequestWithData.submit: self.function(self.URL(), data=..., params=...,
\* headers=...)
RequestWithData_submit(r) ==
    CallArgs(r.function, URL(r), r.stuff["params"], r.stuff["data"],
             r.stuff["headers"])

\* RequestOrderedData.submit
RequestOrderedData_submit(r) ==
    CallArgs(r.function, URL(r), r.stuff["params"], r.stuff["data"],
             r.stuff["headers"])

\* submit, up to the entry of the transport function
Submit(chains) ==
    /\ pc = "building"
    /\ nsubmit = 0
    /\ LET args == CASE req.kind = "Request" -> Request_submit(req)
                     [] req.kind = "RequestWithData" -> RequestWithData_submit(req)
                     [] req.kind = "RequestOrderedData" ->
                          RequestOrderedData_submit(req)
       IN /\ call' = [function |-> args.function, url |-> args.url,
                      params |-> args.params, data |-> args.data,
                      headers |-> args.headers, via |-> "submit"]
          /\ calls' = Append(calls,
                             CallArgs(args.function, args.url,
                                      Snap(heap, args.params),
                                      Snap(heap, args.data),
                                      Snap(heap, args.headers)))
          /\ Entered(args.function)
    /\ nsubmit' = nsubmit + 1
    /\ pages' \in IF req.function = "get_all_pages" THEN chains ELSE { <<>> }
    /\ UNCHANGED <<module_globals, token_file, frame>>
    /\ UNCHANGED <<req, heap, budget, last, wire, served, loc, ret>>

\* submit returns what the transport function returned, or lets its
\* exception through
SubmitReturn ==
    /\ pc = "done"
    /\ call.via = "submit"
    /\ ret' = result
    /\ pc' = "returned"
    /\ UNCHANGED <<module_globals, token_file, frame>>
    /\ UNCHANGED <<req, heap, budget, last, call, calls, wire, served, pages,
                   loc, result, nsubmit>>

-----------------------------------------------------------------------------
(* A builder is constructed, filled and submitted *)

\* the servers a submitted get_all_pages meets: two pages of 2 and 1 items, one
\* page, one failing page
SubmitChains ==
    { << [status |-> 200, body |-> JsonList(<<ItemName(1, 1), ItemName(1, 2)>>)],
         [status |-> 200, body |-> JsonList(<<ItemName(2, 1)>>)] >>,
      << [status |-> 200, body |-> JsonList(<<ItemName(1, 1)>>)] >>,
      << [status |-> 500, body |-> ErrorBody] >> }

InitSubmit == InitWith(MaxAddsSubmit)
NextSubmit ==
    \/ Construct(Functions, Locashuns, BaseArgs, TokenArgs)
    \/ BuilderOp({"k1"}, {"k1", "local_file"}, {PyNone, Scalar("v1")},
                 { << <<"k2", Scalar("v2")>> >> })
    \/ Submit(SubmitChains)
    \/ Transport
    \/ SubmitReturn
SpecSubmit == InitSubmit /\ [][NextSubmit]_vars

-----------------------------------------------------------------------------
(* read_access_token, lines 26-34.  A string that is looked into is kept as *)
(* the sequence of its characters.                                          *)

MaxReads == 2        \* calls of read_access_token
NL == "\n"

\* the string of a sequence of characters
RECURSIVE Str(_)
Str(cs) == IF cs = <<>> THEN "" ELSE cs[1] \o Str(Tail(cs))

\* A faulty variant of rstrip that strips blanks as well.
RECURSIVE rstrip_blanks_too(_, _)
rstrip_blanks_too(str, chars) ==
    IF str # <<>> /\ str[Len(str)] \in chars \cup {" "}
    THEN rstrip_blanks_too(SubSeq(str, 1, Len(str) - 1), chars)
    ELSE str

\* str.rstrip(chars)
RECURSIVE rstrip(_, _)
rstrip(str, chars) ==
    IF str # <<>> /\ str[Len(str)] \in chars
    THEN rstrip(SubSeq(str, 1, Len(str) - 1), chars)
    ELSE str

\* what open(expanduser(file), 'r') and f.read() can meet
TokenFileContents ==
    { <<"t", "k">>, <<"t", "k", NL, NL>>, <<"t", NL, "k", " ", NL>>, <<NL>> }
TokenFiles ==
    { [status |-> st, content |-> <<>>] : st \in {"absent", "denied", "undecodable"} }
    \cup { [status |-> "ok", content |-> c] : c \in TokenFileContents }

\* the exception lines 30-31 raise for a file, "" for none
ReadError(file) ==
    CASE file.status = "absent" -> "FileNotFoundError"
      [] file.status = "denied" -> "PermissionError"
      [] file.status = "undecodable" -> "UnicodeDecodeError"
      [] OTHER -> ""

\* the classes that `except Exception` (line 32) catches
Exceptions ==
    {"FileNotFoundError", "PermissionError", "UnicodeDecodeError", "ValueError",
     "TypeError", "KeyError", "AttributeError", "ConnectionError", "HTTPError",
     "JSONDecodeError"}

read_access_token(files) ==
    /\ pc \in {"idle", "building", "returned"}
    /\ token_file.n < MaxReads
    /\ \E file \in files :
          LET err == ReadError(file)
          IN /\ TOKEN' = IF err = "" THEN Str(rstrip(file.content, {NL}))
                         ELSE TOKEN
             /\ token_file' = [n |-> token_file.n + 1, status |-> file.status,
                               content |-> file.content, before |-> TOKEN,
                               raised |-> err # "" /\ err \notin Exceptions]
    /\ UNCHANGED <<pc, req, heap, budget, last, HAS_PANDOC, BASE_URL, THIS_YEAR,
                   frame>>
    /\ UNCHANGED transport

-----------------------------------------------------------------------------
(* The token is read, builders are constructed and submitted *)

InitToken == InitWith(0)
NextToken ==
    \/ read_access_token(TokenFiles)
    \/ Construct({"get_to_json", "post_to_json"}, {<<"api/v1/x">>}, {NoArgSeq},
                 TokenArgs)
    \/ Submit({ <<>> })
    \/ get_to_json
    \/ post_to_json
    \/ SubmitReturn
SpecToken == InitToken /\ [][NextToken]_vars

-----------------------------------------------------------------------------
(* Endpoint functions: each builds a request with a builder and submits it. *)
(* A builder under construction is the pair b = [req, heap] of the object   *)
(* and the heap that holds its mappings.                                    *)

PyInt(n) == [kind |-> "int", s |-> ToString(n), items |-> <<>>]

\* sep.join(strs)
RECURSIVE join(_, _)
join(sep, strs) ==
    IF strs = <<>> THEN ""
    ELSE IF Len(strs) = 1 THEN strs[1]
    ELSE strs[1] \o sep \o join(sep, Tail(strs))

\* req.add_param(key, value)
Request_add_param(b, key, value) ==
    LET n == base_request_add_to_dict(b.req.stuff, b.heap, "params", key, value,
                                      FALSE)
    IN [req |-> [b.req EXCEPT !.stuff = n.stuff], heap |-> n.heap]

\* req.add_optional_param(key, value)
Request_add_optional_param(b, key, value) ==
    LET n == base_request_add_optional_to_dict(b.req.stuff, b.heap, "params", key,
                                               value, FALSE)
    IN [req |-> [b.req EXCEPT !.stuff = n.stuff], heap |-> n.heap]

\* req.add_data(key, value)
RequestWithData_add_data(b, key, value) ==
    LET n == base_request_add_to_dict(b.req.stuff, b.heap, "data", key, value,
                                      FALSE)
    IN [req |-> [b.req EXCEPT !.stuff = n.stuff], heap |-> n.heap]

\* the frame of a running endpoint function: its arguments and its locals
Frame(function, args, locals) ==
    [function |-> function, args |-> args, locals |-> locals]

\* return req.submit(), up to the entry of the transport function
EndpointSubmit(b, chains) ==
    LET args == CASE b.req.kind = "Request" -> Request_submit(b.req)
                  [] b.req.kind = "RequestWithData" -> RequestWithData_submit(b.req)
                  [] b.req.kind = "RequestOrderedData" ->
                       RequestOrderedData_submit(b.req)
    IN /\ req' = b.req
       /\ heap' = b.heap
       /\ call' = [function |-> args.function, url |-> args.url,
                   params |-> args.params, data |-> args.data,
                   headers |-> args.headers, via |-> "endpoint"]
       /\ calls' = Append(calls,
                          CallArgs(args.function, args.url,
                                   Snap(b.heap, args.params),
                                   Snap(b.heap, args.data),
                                   Snap(b.heap, args.headers)))
       /\ nsubmit' = nsubmit + 1
       /\ pages' \in IF args.function = "get_all_pages" THEN chains ELSE { <<>> }
       /\ Entered(args.function)

\* the endpoint function ends without a (further) request
EndpointOver(res) ==
    /\ ret' = res
    /\ pc' = "returned"
    /\ UNCHANGED <<req, heap, call, calls, nsubmit, pages, result>>

\* the endpoint functions that return what their one submit returns
ReturningSubmit ==
    {"get_submissions", "create_external_tool", "show_module_item",
     "create_grading_standard"}

EndpointReturn ==
    /\ pc = "done"
    /\ call.via = "endpoint"
    /\ \/ frame.function \in ReturningSubmit
       \/ frame.function = "enroll_user_by_login_id" /\ frame.locals.step = "enroll"
    /\ ret' = result
    /\ pc' = "returned"
    /\ UNCHANGED <<module_globals, token_file, frame>>
    /\ UNCHANGED <<req, heap, budget, last, call, calls, wire, served, pages,
                   loc, result, nsubmit>>

-----------------------------------------------------------------------------
(* get_submissions, lines 1203-1283 *)

\* x in xs, xs a Python list
InList(x, xs) == \E i \in DOMAIN xs.items : xs.items[i] = x

\* the same without the test of membership
IdIntoListAlwaysAdding(single, many) ==
    IF single # PyNone /\ IsList(many)
    THEN [single |-> PyNone, many |-> PyList(Append(many.items, single))]
    ELSE [single |-> single, many |-> many]

\* lines 1225-1228 and 1232-1235: a single id given together with a list goes
\* into the list (the caller's list, changed in place)
IdIntoList(single, many) ==
    IF single # PyNone /\ IsList(many)
    THEN [single |-> PyNone,
          many |-> IF InList(single, many) THEN many
                   ELSE PyList(Append(many.items, single))]
    ELSE [single |-> single, many |-> many]

\* ','.join(str(id) for id in ids)
IdList(ids) == Scalar(join(",", [i \in DOMAIN ids.items |-> ids.items[i].s]))

\* lines 1243-1256: api, and assignment and assignments as the branch leaves
\* them.  Each of lines 1246 and 1250 is a complete assignment statement; the
\* string literals on the two lines after it are expression statements whose
\* values go nowhere.
SubmissionsApi(course, assignment, student, assignments, students) ==
    IF assignment = PyNone
    THEN [api |-> <<>>, assignment |-> assignment, assignments |-> assignments]
    ELSE IF student # PyNone \/ students = PyNone
    THEN [api |-> <<"/", "api/v1/courses/", course.s>>,
          assignment |-> assignment, assignments |-> assignments]
    ELSE [api |-> <<>>, assignment |-> PyNone,
          assignments |-> PyList(<<assignment>>)]

get_submissions(courses, ids, lists, bases, tokens, chains) ==
    /\ pc = "idle"
    /\ \E course \in courses, assignment \in ids \cup {PyNone},
          student \in ids \cup {PyNone}, assignments \in lists \cup {PyNone},
          students \in lists \cup {PyNone}, grouped \in BOOLEAN,
          base \in bases, access_token \in tokens :
          LET s1 == IdIntoList(student, students)
              a1 == IdIntoList(assignment, assignments)
              sel == SubmissionsApi(course, a1.single, s1.single, a1.many, s1.many)
              students2 == IF s1.single # PyNone THEN PyList(<<s1.single>>)
                           ELSE s1.many
              student_list == IF students2 = PyNone THEN Scalar("all")
                              ELSE IdList(students2)
              assignment_list == IF sel.assignments = PyNone THEN PyNone
                                 ELSE IdList(sel.assignments)
              single == Request_init(heap, "get_all_pages", sel.api, base,
                                     access_token)
              multi == Request_add_optional_param(
                          Request_add_param(
                             Request_add_param(
                                Request_init(heap, "get_all_pages",
                                             <<"/", "api/v1/courses/", course.s,
                                               "/students/submissions">>,
                                             base, access_token),
                                "grouped", PyInt(IF grouped THEN 1 ELSE 0)),
                             "student_ids[]", student_list),
                          "assignment_ids[]", assignment_list)
          IN /\ frame' = Frame("get_submissions",
                               [course |-> course, assignment |-> assignment,
                                student |-> student, assignments |-> assignments,
                                students |-> students, grouped |-> grouped,
                                base |-> base],
                               [student |-> s1.single, students |-> s1.many,
                                assignment |-> a1.single, assignments |-> a1.many])
             /\ EndpointSubmit(IF sel.api # <<>> THEN single ELSE multi, chains)
    /\ UNCHANGED <<module_globals, token_file>>
    /\ UNCHANGED <<budget, last, wire, served, loc, ret>>

-----------------------------------------------------------------------------
(* find_user_by_login_id and enroll_user_by_login_id, lines 973-1019 *)

find_user_by_login_id(hp, login_id, base, access_token) ==
    Request_init(hp, "get_to_json",
                 <<"/", "api/v1/users/sis_login_id:", login_id.s, "/profile">>,
                 base, access_token)

\* line 1002, up to the entry of get_to_json
enroll_user_by_login_id(courses, login_ids, bases, tokens) ==
    /\ pc = "idle"
    /\ \E course \in courses, login_id \in login_ids, base \in bases,
          access_token \in tokens :
          /\ frame' = Frame("enroll_user_by_login_id",
                            [course |-> course, login_id |-> login_id,
                             base |-> base, access_token |-> access_token],
                            [step |-> "lookup", json1 |-> NoResult])
          /\ EndpointSubmit(find_user_by_login_id(heap, login_id, base,
                                                  access_token), { <<>> })
    /\ UNCHANGED <<module_globals, token_file>>
    /\ UNCHANGED <<budget, last, wire, served, loc, ret>>

\* x in json, json a JSON object (its keys) or list (its items)
JsonContains(json, x) ==
    IF json.kind = "dict" THEN DictHas(json.items, x)
    ELSE \E i \in DOMAIN json.items : json.items[i] = x

\* {"Error": 1, "msg": "Could not find user", "json": json1}
NotFoundRecord(json1) ==
    JsonObject(<< <<"Error", 1>>, <<"msg", "Could not find user">>,
                  <<"json", json1>> >>)

\* lines 1012-1019: the enrollment request
Enrollment(hp, course, id, base, access_token) ==
    RequestWithData_add_data(
       RequestWithData_add_data(
          RequestWithData_init(hp, "post_to_json",
                               <<"api/v1/courses/", course.s, "/enrollments">>,
                               base, access_token),
          "enrollment[user_id]", Scalar(id)),
       "enrollment[enrollment_state]", Scalar("active"))

\* A faulty variant of user_found that takes any profile with an id.
user_found_any_login(json1, login_id) ==
    JsonContains(json1, "login_id") /\ DictHas(json1.items, "id")

\* line 1007, json1 an object:
\* "login_id" in json1 and json1["login_id"] == login_id and "id" in json1
user_found(json1, login_id) ==
    /\ JsonContains(json1, "login_id")
    /\ DictGet(json1.items, "login_id") = login_id.s
    /\ DictHas(json1.items, "id")

\* lines 1002-1019, from the return of find_user_by_login_id on
enroll_after_lookup ==
    /\ pc = "done"
    /\ frame.function = "enroll_user_by_login_id"
    /\ frame.locals.step = "lookup"
    /\ LET json1 == result.val
           a == frame.args
           Over(res) ==
               /\ EndpointOver(res)
               /\ frame' = [frame EXCEPT !.locals = [step |-> "over",
                                                     json1 |-> result]]
       IN IF result.kind = "raise"
          THEN Over(result)
          ELSE IF JsonContains(json1, "Error")
          THEN Over(IF json1.kind = "dict"
                    THEN Returned(JsonObject(DictSet(json1.items, "msg",
                                                     "HTTP error")))
                    ELSE Raised("TypeError"))
          ELSE IF json1.kind # "dict" /\ JsonContains(json1, "login_id")
          THEN Over(Raised("TypeError"))
          ELSE IF json1.kind = "dict" /\ user_found(json1, a.login_id)
          THEN /\ EndpointSubmit(Enrollment(heap, a.course,
                                            DictGet(json1.items, "id"), a.base,
                                            a.access_token), { <<>> })
               /\ frame' = [frame EXCEPT !.locals = [step |-> "enroll",
                                                     json1 |-> result]]
               /\ UNCHANGED ret
          ELSE Over(Returned(NotFoundRecord(json1)))
    /\ UNCHANGED <<module_globals, token_file>>
    /\ UNCHANGED <<budget, last, wire, served, loc>>

-----------------------------------------------------------------------------
(* create_external_tool, lines 1875-1910 *)

\* A faulty variant of ExternalToolMatch that prefers the domain.
ExternalToolMatchDomainFirst(url, domain) ==
    IF domain # PyNone THEN <<"domain", domain>> ELSE <<"url", url>>

\* lines 1905-1908: what links are matched against, as (key, value)
ExternalToolMatch(url, domain) ==
    IF url = PyNone THEN <<"domain", domain>> ELSE <<"url", url>>

create_external_tool(courses, urls, domains, bases, tokens) ==
    /\ pc = "idle"
    /\ \E course \in courses, url \in urls, domain \in domains, base \in bases,
          access_token \in tokens :
          /\ frame' = Frame("create_external_tool",
                            [course |-> course, url |-> url, domain |-> domain,
                             base |-> base],
                            [step |-> "submit"])
          /\ IF url = PyNone /\ domain = PyNone
             THEN EndpointOver(Raised("ValueError"))
             ELSE LET match == ExternalToolMatch(url, domain)
                      b0 == RequestWithData_init(
                               heap, "post_to_json",
                               <<"/", "api/v1/courses/", course.s, "/external_tools">>,
                               base, access_token)
                      b1 == RequestWithData_add_data(b0, "name", Scalar("tool"))
                      b2 == RequestWithData_add_data(b1, "privacy_level",
                                                     Scalar("public"))
                      b3 == RequestWithData_add_data(b2, "consumer_key",
                                                     Scalar("key"))
                      b4 == RequestWithData_add_data(b3, "shared_secret",
                                                     Scalar("secret"))
                  IN /\ EndpointSubmit(
                           RequestWithData_add_data(b4, match[1], match[2]),
                           { <<>> })
                     /\ UNCHANGED ret
    /\ UNCHANGED <<module_globals, token_file>>
    /\ UNCHANGED <<budget, last, wire, served, loc>>

-----------------------------------------------------------------------------
(* create_calendar_event, class_span and create_events_from_list, lines     *)
(* 337-362 and 420-456.  An arrow object is a day number and a minute of    *)
(* that day.                                                                *)

MaxEvents == 4       \* entries of event_list
MinutesPerDay == 1440

Arrow(day, minute) == [day |-> day, minute |-> minute]

\* arrow.shift(days=n)
shift_days(t, n) == Arrow(t.day + n, t.minute)

\* start.replace(minutes=length) (line 426): arrow, in the versions that take
\* a plural unit in replace, moves the time by that many minutes
replace_minutes(t, n) ==
    Arrow(t.day + (t.minute + n) \div MinutesPerDay,
          (t.minute + n) % MinutesPerDay)

\* two digits
Pad(n) == IF n < 10 THEN "0" \o ToString(n) ELSE ToString(n)

\* arrow.isoformat(), the date written as the number of its day
isoformat(t) ==
    Scalar("day" \o ToString(t.day) \o "T" \o Pad(t.minute \div 60) \o ":"
           \o Pad(t.minute % 60))

class_span(start, length) ==
    <<isoformat(start), isoformat(replace_minutes(start, length))>>

\* lines 350-360: the request of create_calendar_event
create_calendar_event(hp, course, title, description, start_at, end_at, base, access_token) ==
    LET b0 == RequestWithData_init(hp, "post_to_json",
                                   <<"api/v1/calendar_events.json">>, base,
                                   access_token)
        b1 == RequestWithData_add_data(b0, "calendar_event[context_code]",
                                       Scalar("course_" \o course.s))
        b2 == RequestWithData_add_data(b1, "calendar_event[title]", title)
        b3 == RequestWithData_add_data(b2, "calendar_event[description]",
                                       description)
        b4 == RequestWithData_add_data(b3, "calendar_event[start_at]", start_at)
    IN RequestWithData_add_data(b4, "calendar_event[end_at]", end_at)

\* A faulty variant of next_classtime in which a skipped entry keeps the slot
\* for the next one.
next_classtime_unless_skipped(classtime, i, title) ==
    IF title = Scalar("") THEN classtime
    ELSE shift_days(classtime, IF i % 2 = 0 THEN 2 ELSE 5)

\* line 456: classtime.shift(days=2 if i % 2 == 0 else 5)
next_classtime(classtime, i, title) ==
    shift_days(classtime, IF i % 2 = 0 THEN 2 ELSE 5)

\* the event lists the caller draws from: (title, description) pairs
EventsOfLen(n) == [1..n -> {<<Scalar(""), Scalar("d")>>, <<Scalar("A"), Scalar("d")>>}]
EventLists == UNION { EventsOfLen(n) : n \in 0..MaxEvents }

\* the call, up to the loop of line 450
create_events_from_list(courses, event_lists, starts, lengths, bases, tokens) ==
    /\ pc = "idle"
    /\ \E course \in courses, event_list \in event_lists, start \in starts,
          length \in lengths, base \in bases, access_token \in tokens :
          frame' = Frame("create_events_from_list",
                         [course |-> course, event_list |-> event_list,
                          start |-> start, length |-> length, base |-> base,
                          access_token |-> access_token],
                         [i |-> 0, classtime |-> start])
    /\ pc' = "create_events_from_list"
    /\ UNCHANGED <<module_globals, token_file>>
    /\ UNCHANGED <<req, heap, budget, last, call, calls, wire, served, pages,
                   loc, result, ret, nsubmit>>

\* lines 450-456: one entry of the list, up to the entry of post_to_json when
\* it has a title; the end of the loop
create_events_entry ==
    /\ pc = "create_events_from_list"
    /\ LET a == frame.args
           i == frame.locals.i
           classtime == frame.locals.classtime
           event == a.event_list[i + 1]
       IN IF i = Len(a.event_list)
          THEN EndpointOver(Returned(PyNone)) /\ UNCHANGED frame
          ELSE IF event[1] # Scalar("")
          THEN /\ LET span == class_span(classtime, a.length)
                  IN EndpointSubmit(
                        create_calendar_event(heap, a.course, event[1], event[2],
                                              span[1], span[2], a.base,
                                              a.access_token),
                        { <<>> })
               /\ UNCHANGED <<frame, ret>>
          ELSE /\ frame' = [frame EXCEPT
                              !.locals.i = i + 1,
                              !.locals.classtime =
                                  next_classtime(classtime, i, event[1])]
               /\ UNCHANGED <<pc, req, heap, call, calls, nsubmit, pages, result,
                              ret>>
    /\ UNCHANGED <<module_globals, token_file>>
    /\ UNCHANGED <<budget, last, wire, served, loc>>

\* create_calendar_event is back: its exception ends the function, its result
\* is dropped and the loop goes on (line 456)
create_events_resume ==
    /\ pc = "done"
    /\ frame.function = "create_events_from_list"
    /\ LET i == frame.locals.i
           event == frame.args.event_list[i + 1]
       IN IF result.kind = "raise"
          THEN EndpointOver(result) /\ UNCHANGED frame
          ELSE /\ frame' = [frame EXCEPT
                              !.locals.i = i + 1,
                              !.locals.classtime =
                                  next_classtime(frame.locals.classtime, i,
                                                 event[1])]
               /\ pc' = "create_events_from_list"
               /\ UNCHANGED <<req, heap, call, calls, nsubmit, pages, result, ret>>
    /\ UNCHANGED <<module_globals, token_file>>
    /\ UNCHANGED <<budget, last, wire, served, loc>>

-----------------------------------------------------------------------------
(* show_module_item, lines 1770-1797 *)

\* requests.get as show_module_item's builder calls it: one GET, the response
\* object is the result
requests_get ==
    /\ pc = "requests.get"
    /\ LET params == Snap(heap, call.params)
           sent == HttpRequest("GET", call.url, params, NoneObj,
                               Snap(heap, call.headers), PyNone)
       IN /\ wire' = Append(wire, sent)
          /\ \E resp \in Outcomes(PreparedURL(call.url, params), Bodies) :
                /\ served' = Append(served, resp)
                /\ Done(IF resp.answered THEN Returned(resp)
                        ELSE Raised("ConnectionError"))
    /\ UNCHANGED <<module_globals, token_file, frame>>
    /\ UNCHANGED <<req, heap, budget, last, call, calls, pages, loc, ret, nsubmit>>

\* details is a parameter that the body never reads (lines 1790-1797)
show_module_item(courses, modules, items, students, bases, tokens) ==
    /\ pc = "idle"
    /\ \E course \in courses, module \in modules, item \in items,
          details \in BOOLEAN, student \in students, base \in bases,
          access_token \in tokens :
          LET b0 == Request_init(heap, "requests.get",
                                 <<"/", "api/v1/courses/", course.s, "/modules/",
                                   module.s, "/items/", item.s>>,
                                 base, access_token)
              b1 == Request_add_optional_param(
                       b0, "include", PyList(<<Scalar("content_details")>>))
          IN /\ frame' = Frame("show_module_item",
                               [course |-> course, module |-> module,
                                item |-> item, details |-> details,
                                student |-> student, base |-> base],
                               [step |-> "submit"])
             /\ EndpointSubmit(Request_add_optional_param(b1, "student_id", student),
                               { <<>> })
    /\ UNCHANGED <<module_globals, token_file>>
    /\ UNCHANGED <<budget, last, wire, served, loc, ret>>

-----------------------------------------------------------------------------
(* convert_markdown and create_discussion, lines 459-474 and 548-600 *)

\* a Python bool
PyBool(b) == [kind |-> "bool", s |-> IF b THEN "True" ELSE "False", items |-> <<>>]

\* lines 465-474: body as HTML, by pypandoc when asked for and available and
\* by markdown otherwise
convert_markdown(body, use_pandoc) ==
    IF use_pandoc /\ HAS_PANDOC
    THEN Scalar("<p>" \o body.s \o "</p>" \o NL)
    ELSE Scalar("<p>" \o body.s \o "</p>")

\* lines 584-600.  RequestWithData has add_optional_data and no
\* add_data_optional: line 597 raises AttributeError, with the builder
\* (a local of the call) filled by lines 588-596 and never submitted.
create_discussion(courses, titles, messages, groups, positions, bases, tokens) ==
    /\ pc = "idle"
    /\ \E course \in courses, title \in titles, markdown_message \in messages,
          group \in groups, position_after \in positions, published \in BOOLEAN,
          use_pandoc \in BOOLEAN, base \in bases, access_token \in tokens :
          LET b0 == RequestWithData_init(
                       heap, "post_to_json",
                       <<"api/v1/courses/", course.s, "/discussion_topics">>,
                       base, access_token)
              b1 == RequestWithData_add_data(b0, "title", title)
              b2 == RequestWithData_add_data(
                       b1, "message", convert_markdown(markdown_message, use_pandoc))
              b3 == RequestWithData_add_data(b2, "is_announcement", Scalar("0"))
              b4 == RequestWithData_add_data(b3, "discussion_type",
                                             Scalar("threaded"))
              b5 == RequestWithData_add_data(b4, "published", PyBool(published))
              b6 == RequestWithData_add_data(b5, "allow_rating", PyBool(FALSE))
              b7 == RequestWithData_add_data(b6, "sort_by_rating", PyBool(FALSE))
              b8 == RequestWithData_add_data(b7, "only_graders_can_rate",
                                             PyBool(FALSE))
              b9 == RequestWithData_add_data(b8, "podcast_enabled", PyBool(FALSE))
              b10 == RequestWithData_add_data(b9, "podcast_has_student_posts",
                                              PyBool(FALSE))
              b11 == RequestWithData_add_data(b10, "require_initial_post",
                                              PyBool(FALSE))
              b12 == RequestWithData_add_data(b11, "pinned", PyBool(FALSE))
          IN /\ frame' = Frame("create_discussion",
                               [course |-> course, title |-> title,
                                markdown_message |-> markdown_message,
                                group |-> group, position_after |-> position_after,
                                published |-> published, use_pandoc |-> use_pandoc,
                                base |-> base],
                               [step |-> "line 597",
                                data |-> b12.heap[b12.req.stuff["data"]].items])
             /\ EndpointOver(Raised("AttributeError"))
    /\ UNCHANGED <<module_globals, token_file>>
    /\ UNCHANGED <<budget, last, wire, served, loc>>

-----------------------------------------------------------------------------
(* list_calendar_events_between_dates, lines 365-385 *)

\* The builder is a Request, which has add_param and no add_data: the first
\* req.add_data raises AttributeError before anything is submitted.
list_calendar_events_between_dates(courses, dates, bases, tokens) ==
    /\ pc = "idle"
    /\ \E course \in courses, start_date \in dates, end_date \in dates,
          base \in bases, access_token \in tokens :
          LET b0 == Request_init(heap, "get_all_pages",
                                 <<"api/v1/calendar_events.json">>, base,
                                 access_token)
          IN /\ frame' = Frame("list_calendar_events_between_dates",
                               [course |-> course, start_date |-> start_date,
                                end_date |-> end_date, base |-> base],
                               [step |-> "add_data",
                                params |-> b0.heap[b0.req.stuff["params"]].items])
             /\ EndpointOver(Raised("AttributeError"))
    /\ UNCHANGED <<module_globals, token_file>>
    /\ UNCHANGED <<budget, last, wire, served, loc>>

-----------------------------------------------------------------------------
(* create_grading_standard, lines 1585-1612 *)

MaxGrades == 3   \* grades of a grading standard

\* req.add_data(key, value), req a RequestOrderedData
RequestOrderedData_add_data(b, key, value) ==
    LET n == ListExtend(b.req.stuff, b.heap, << <<key, value>> >>)
    IN [req |-> [b.req EXCEPT !.stuff = n.stuff], heap |-> n.heap]

\* A faulty variant of cutoffs_completed that leaves the cutoffs as they are.
cutoffs_left_alone(grades, cutoffs) == cutoffs

\* lines 1600-1601: cutoffs += [0], on the caller's list, when it has one
\* item less than grades
cutoffs_completed(grades, cutoffs) ==
    IF Len(cutoffs.items) = Len(grades.items) - 1
    THEN PyList(Append(cutoffs.items, PyInt(0)))
    ELSE cutoffs

\* zip(xs, ys), as a list
zip(xs, ys) ==
    [i \in 1..(IF Len(xs) <= Len(ys) THEN Len(xs) ELSE Len(ys)) |-> <<xs[i], ys[i]>>]

\* the loop of lines 1608-1610 over the pairs (g, c)
RECURSIVE add_scheme_entries(_, _)
add_scheme_entries(b, pairs) ==
    IF pairs = <<>> THEN b
    ELSE add_scheme_entries(
            RequestOrderedData_add_data(
               RequestOrderedData_add_data(b, "grading_scheme_entry[][name]",
                                           pairs[1][1]),
               "grading_scheme_entry[][value]", pairs[1][2]),
            Tail(pairs))

create_grading_standard(courses, names, grade_lists, cutoff_lists, bases, tokens) ==
    /\ pc = "idle"
    /\ \E course \in courses, name \in names, grades \in grade_lists,
          cutoffs \in cutoff_lists, base \in bases, access_token \in tokens :
          LET cutoffs1 == cutoffs_completed(grades, cutoffs)
              b0 == RequestOrderedData_init(
                       heap, "post_to_json",
                       <<"/", "api/v1/courses/", course.s, "/grading_standards">>,
                       base, access_token)
              b1 == RequestOrderedData_add_data(b0, "title", name)
          IN /\ frame' = Frame("create_grading_standard",
                               [course |-> course, name |-> name,
                                grades |-> grades, cutoffs |-> cutoffs,
                                base |-> base],
                               [step |-> "submit", cutoffs |-> cutoffs1])
             /\ EndpointSubmit(
                   add_scheme_entries(b1, zip(grades.items, cutoffs1.items)),
                   { <<>> })
    /\ UNCHANGED <<module_globals, token_file>>
    /\ UNCHANGED <<budget, last, wire, served, loc, ret>>

-----------------------------------------------------------------------------
(* The endpoint functions, each called once *)

Courses == {Scalar("42")}
Ids == {Scalar("5"), Scalar("7")}
IdLists == {PyList(<<>>), PyList(<<Scalar("5")>>), PyList(<<Scalar("7"), Scalar("8")>>)}
LoginIds == {Scalar("jdoe")}
ToolURLs == {PyNone, Scalar("https://tool.test/launch")}
ToolDomains == {PyNone, Scalar("tool.test")}
ClassStarts == {Arrow(0, 600), Arrow(1, 1420)}
ClassLengths == {50}
EndpointChains ==
    { << [status |-> 200, body |-> JsonList(<<ItemName(1, 1)>>)] >> }
ModuleIds == {Scalar("3")}
ItemIds == {Scalar("9")}
StudentIds == {PyNone, Scalar("5")}
Titles == {Scalar("T")}
Messages == {Scalar("msg")}
GroupIds == {PyNone, Scalar("3")}
PositionIds == {PyNone, Scalar("4")}
Dates == {Scalar("2026-01-01"), Scalar("2026-02-01")}
StandardNames == {Scalar("std")}
\* grades G1, G2, ... and cutoffs 90, 80, ..., up to MaxGrades of each
GradeLists ==
    { PyList([i \in 1..n |-> Scalar("G" \o ToString(i))]) : n \in 0..MaxGrades }
CutoffLists ==
    { PyList([i \in 1..n |-> PyInt(100 - 10 * i)]) : n \in 0..MaxGrades }

InitEndpoints == InitWith(0)
NextEndpoints ==
    \/ get_submissions(Courses, Ids, IdLists, {NoArgSeq}, {NoArgStr},
                       EndpointChains)
    \/ enroll_user_by_login_id(Courses, LoginIds, BaseArgs, {NoArgStr})
    \/ enroll_after_lookup
    \/ create_external_tool(Courses, ToolURLs, ToolDomains, {NoArgSeq},
                            {NoArgStr})
    \/ create_events_from_list(Courses, EventLists, ClassStarts, ClassLengths,
                               {NoArgSeq}, {NoArgStr})
    \/ create_events_entry
    \/ create_events_resume
    \/ show_module_item(Courses, ModuleIds, ItemIds, StudentIds, {NoArgSeq},
                        {NoArgStr})
    \/ create_discussion(Courses, Titles, Messages, GroupIds, PositionIds,
                         {NoArgSeq}, {NoArgStr})
    \/ list_calendar_events_between_dates(Courses, Dates, {NoArgSeq}, {NoArgStr})
    \/ create_grading_standard(Courses, StandardNames, GradeLists, CutoffLists,
                               {NoArgSeq}, {NoArgStr})
    \/ EndpointReturn
    \/ get_all_pages_start
    \/ get_all_pages_loop
    \/ get_to_json
    \/ post_to_json
    \/ requests_get
SpecEndpoints == InitEndpoints /\ [][NextEndpoints]_vars

-----------------------------------------------------------------------------
(* The whole library: the token file is read; builders are made, filled and *)
(* submitted; transport functions and endpoint functions are called         *)

MaxAddsLibrary == 1  \* builder operations before a submit

LibraryTokenFiles ==
    { [status |-> "absent", content |-> <<>>],
      [status |-> "ok", content |-> <<"t", "k", NL>>] }
LibraryChains ==
    { << [status |-> 200, body |-> JsonList(<<ItemName(1, 1)>>)],
         [status |-> 200, body |-> JsonList(<<>>)] >> }
LibraryEventLists ==
    { << <<Scalar(""), Scalar("d")>>, <<Scalar("A"), Scalar("d")>> >> }

InitLibrary == InitWith(MaxAddsLibrary)
NextLibrary ==
    \/ read_access_token(LibraryTokenFiles)
    \/ Construct(Functions, {<<"api/v1/x">>}, {NoArgSeq}, TokenArgs)
    \/ BuilderOp({"k1"}, {"local_file"}, {Scalar("v1")},
                 { << <<"k2", Scalar("v2")>> >> })
    \/ Submit(LibraryChains)
    \/ SubmitReturn
    \/ DirectCall
    \/ Transport
    \/ progress_next
    \/ get_submissions(Courses, {Scalar("5")}, {PyList(<<Scalar("7")>>)},
                       {NoArgSeq}, TokenArgs, LibraryChains)
    \/ enroll_user_by_login_id(Courses, LoginIds, {NoArgSeq}, TokenArgs)
    \/ enroll_after_lookup
    \/ create_external_tool(Courses, ToolURLs, {PyNone}, {NoArgSeq}, TokenArgs)
    \/ create_events_from_list(Courses, LibraryEventLists, {Arrow(0, 600)},
                               ClassLengths, {NoArgSeq}, TokenArgs)
    \/ create_events_entry
    \/ create_events_resume
    \/ EndpointReturn
SpecLibrary == InitLibrary /\ [][NextLibrary]_vars

-----------------------------------------------------------------------------
(* Properties of the builder's add operations.  `last` holds the latest    *)
(* operation with the mappings as they were before it; the heap holds the  *)
(* mappings as they are after it.                                          *)

BeforeMap == last[last.which]
NowMap == Stored(last.which)
OtherWhich == IF last.which = "params" THEN "data" ELSE "params"

\* The keys other than k are the same, with the same values, in d and e.
SameExcept(d, e, k) ==
    /\ DictKeys(d) \ {k} = DictKeys(e) \ {k}
    /\ \A j \in DictKeys(d) \ {k} : DictGet(d, j) = DictGet(e, j)

\* C2: add_param / add_data of a key that is already present, with
\* overwrite=False, stores the list made of the earlier value(s) and the new
\* value: [v1, v2] from the scalar v1, [v1, v2, v3] from the list [v1, v2].
C2_DuplicateKeyMakesList ==
    (/\ last.op \in {"add_param", "add_data"}
     /\ ~last.overwrite
     /\ DictHas(BeforeMap, last.key))
    => /\ DictHas(NowMap, last.key)
       /\ LET old == DictGet(BeforeMap, last.key)
          IN DictGet(NowMap, last.key) =
                IF IsList(old) THEN PyList(Append(old.items, last.value))
                ELSE PyList(<<old, last.value>>)

OptionalOps == {"add_optional_param", "add_optional_data",
                "ordered_add_optional_data"}

\* C3 as stated: add_optional_param / add_optional_data with None or with an
\* empty value (the empty string) leaves the mappings exactly as they were.
C3_EmptyOrAbsentNotAdded ==
    (last.op \in OptionalOps /\ last.value \in {PyNone, Scalar("")})
    => /\ Stored("params") = last.params
       /\ Stored("data") = last.data

\* C3, amended: add_optional_param / add_optional_data with None adds no key
\* and leaves the mappings exactly as they were.
C3_NoneNotAdded ==
    (last.op \in OptionalOps /\ last.value = PyNone)
    => /\ Stored("params") = last.params
       /\ Stored("data") = last.data
       /\ DictKeys(NowMap) = DictKeys(BeforeMap)

C3_Witness ==
    /\ last.op \in {"add_optional_param", "add_optional_data"}
    /\ last.value = PyNone
    /\ ~DictHas(BeforeMap, last.key)
    /\ BeforeMap # <<>>

\* C5: add_param / add_data with overwrite=True of a key that is already
\* present replaces the stored value by the new value (no list is formed) and
\* leaves every other key, and the other mapping, unchanged.
C5_OverwriteReplaces ==
    (/\ last.op \in {"add_param", "add_data"}
     /\ last.overwrite
     /\ DictHas(BeforeMap, last.key))
    => /\ DictHas(NowMap, last.key)
       /\ DictGet(NowMap, last.key) = last.value
       /\ SameExcept(NowMap, BeforeMap, last.key)
       /\ Stored(OtherWhich) = last[OtherWhich]

C5_Witness ==
    /\ last.op \in {"add_param", "add_data"}
    /\ last.overwrite
    /\ DictHas(BeforeMap, last.key)
    /\ DictGet(BeforeMap, last.key) # last.value
    /\ Len(BeforeMap) = 2

\* C8: add_param_dict / add_data_dict merges the given mapping: afterwards each
\* of its keys maps to the given value, every other key keeps its earlier
\* value, and the caller's mapping is as the caller made it, after this and
\* after every later add operation.
C8_DictMerged ==
    /\ (last.op \in {"add_param_dict", "add_data_dict"})
       => /\ DictKeys(NowMap) = DictKeys(BeforeMap) \cup DictKeys(last.hash)
          /\ \A k \in DictKeys(last.hash) :
                DictGet(NowMap, k) = DictGet(last.hash, k)
          /\ \A k \in DictKeys(BeforeMap) \ DictKeys(last.hash) :
                DictGet(NowMap, k) = DictGet(BeforeMap, k)
          /\ Stored(OtherWhich) = last[OtherWhich]
    /\ heap["hash"].type = "dict" => heap["hash"].items = last.given

C8_Witness ==
    /\ last.op \in {"add_param_dict", "add_data_dict"}
    /\ \E k \in DictKeys(BeforeMap) \ DictKeys(last.hash) : TRUE
    /\ \E k \in DictKeys(BeforeMap) \cap DictKeys(last.hash) :
          DictGet(BeforeMap, k) # DictGet(last.hash, k)

\* a later add operation has acted on the builder that merged a mapping
C8_WitnessLater ==
    /\ last.op \in {"add_param", "add_data"}
    /\ last.given # <<>>
    /\ NowMap # BeforeMap

-----------------------------------------------------------------------------
(* Properties of the transport functions *)

BadHeaders ==
    /\ call.function # "none"
    /\ (call.headers = NoRef \/ ~DictHas(heap[call.headers].items, "Authorization"))
AllAnswered == \A i \in DOMAIN served : served[i].answered

\* a chain of item pages: every page is served with status 200 and holds a list
IsItemChain(chain) ==
    \A i \in DOMAIN chain : chain[i].status = 200 /\ chain[i].body.kind = "list"

RECURSIVE ItemsOf(_)
ItemsOf(chain) ==
    IF chain = <<>> THEN <<>> ELSE chain[1].body.items \o ItemsOf(Tail(chain))

RECURSIVE CountOf(_)
CountOf(chain) ==
    IF chain = <<>> THEN 0 ELSE Len(chain[1].body.items) + CountOf(Tail(chain))

\* C1: against a server with a chain of N linked pages, page i holding k_i
\* items, get_all_pages returns the k_1 + ... + k_N items: those of page 1,
\* then of page 2, ..., then of page N, each page's in the order sent.
C1_AllPagesInOrder ==
    (/\ pc = "done"
     /\ call.function = "get_all_pages"
     /\ ~BadHeaders
     /\ IsItemChain(pages)
     /\ AllAnswered)
    => /\ result.kind = "return"
       /\ Len(result.val) = CountOf(pages)
       /\ result.val = ItemsOf(pages)

\* the scenario of the spec: 2 items and a next link, then 1 item and no link
C1_Witness ==
    /\ pc = "done"
    /\ call.function = "get_all_pages"
    /\ Len(pages) = 2
    /\ Len(pages[1].body.items) = 2
    /\ Len(pages[2].body.items) = 1
    /\ IsItemChain(pages)
    /\ result.kind = "return"
    /\ result.val = <<"item_1_1", "item_1_2", "item_2_1">>

\* the call statement is over: the function returned or raised
CallOver == pc \in {"done", "returned", "progress_created", "progress_yielded"}

\* C4 as stated: each transport helper called with headers that are None or
\* lack "Authorization" fails with ValueError, and no HTTP request is issued.
C4_CallFailsFast ==
    (BadHeaders /\ CallOver) => (result = Raised("ValueError") /\ wire = <<>>)

\* C4, amended: with such headers no helper ever issues an HTTP request;
\* get_all_pages, the four *_to_json functions and upload_file raise
\* ValueError from the call; progress, a generator function, returns a
\* generator from the call and raises ValueError at the first next().
C4_FailsBeforeAnyRequest ==
    BadHeaders =>
       /\ wire = <<>>
       /\ pc \in {call.function, "done", "progress_created"}
       /\ pc = "done" => result = Raised("ValueError")
       /\ pc = "progress_created" =>
             (call.function = "progress" /\ result = Generator)

C4_Witness ==
    /\ BadHeaders
    /\ call.headers # NoRef
    /\ call.function = "progress"
    /\ pc = "done"
    /\ result = Raised("ValueError")

ToJsonFunctions == {"get_to_json", "delete_to_json", "put_to_json", "post_to_json"}

\* the server has answered the one request of a *_to_json call
ToJsonAnswered ==
    /\ pc = "done"
    /\ call.function \in ToJsonFunctions
    /\ Len(served) = 1
    /\ served[1].answered

RequestedURL == PreparedURL(wire[1].url, wire[1].params)

\* C6 as stated: on a non-2xx status the *_to_json functions return the error
\* record {'Error': status, 'URL': url}; on a 2xx status the parsed JSON body.
C6_ErrorRecordOnNon2xx ==
    ToJsonAnswered =>
       LET r == served[1]
       IN /\ ~(r.status \in 200..299) =>
                result = Returned(JsonObject(<< <<"Error", r.status>>,
                                                <<"URL", RequestedURL>> >>))
          /\ (r.status \in 200..299 /\ r.body.kind # "notjson") =>
                result = Returned(r.body)

\* C6, amended: on a 4xx or 5xx status the *_to_json functions do not raise
\* but return {'Error': status, 'URL': url}; on every other status (2xx, and
\* also 3xx) they return the parsed JSON body.
C6_ErrorRecordOn4xx5xx ==
    ToJsonAnswered =>
       LET r == served[1]
       IN /\ r.status \in 400..599 =>
                result = Returned(JsonObject(<< <<"Error", r.status>>,
                                                <<"URL", RequestedURL>> >>))
          /\ (~(r.status \in 400..599) /\ r.body.kind # "notjson") =>
                result = Returned(r.body)

C6_Witness ==
    /\ ToJsonAnswered
    /\ call.function = "post_to_json"
    /\ call.params # NoRef
    /\ served[1].status = 404
    /\ result.kind = "return"

\* the arguments upload_file was called with
UploadArgs == calls[Len(calls)]

\* C9: upload_file first POSTs the file metadata to the URL given; only after
\* that response has succeeded (it is no HTTP error and names upload_url and
\* upload_params) does it POST the file, with those upload_params, to that
\* upload_url; it returns {'init': step-1 JSON, 'upload': step-2 JSON}.
C9_TwoStepUpload ==
    call.function = "upload_file" =>
       /\ Len(wire) <= 2
       /\ Len(wire) >= 1 =>
             /\ wire[1].verb = "POST"
             /\ wire[1].url = call.url
             /\ wire[1].data = DictObj(DictPop(UploadArgs.data.items, "local_file"))
             /\ wire[1].files = PyNone
       /\ Len(wire) = 2 =>
             /\ served[1].answered
             /\ served[1].status < 400
             /\ served[1].body.kind = "dict"
             /\ wire[2].verb = "POST"
             /\ wire[2].url = DictGet(served[1].body.items, "upload_url")
             /\ wire[2].data =
                   DictObj(DictGet(served[1].body.items, "upload_params"))
             /\ wire[2].files = DictGet(UploadArgs.data.items, "local_file")
       /\ result.kind = "return" =>
             /\ Len(wire) = 2
             /\ result.val = JsonObject(<< <<"init", served[1].body>>,
                                           <<"upload", served[2].body>> >>)

C9_Witness ==
    /\ call.function = "upload_file"
    /\ pc = "done"
    /\ result.kind = "return"
    /\ Len(wire) = 2
    /\ wire[1].data.items # <<>>

\* the requests of the running call that went to url
SentTo(url) == {i \in DOMAIN wire : wire[i].url = url}

UploadNeverRetries ==
    /\ Len(wire) <= 2
    /\ Cardinality(SentTo(call.url)) <= 1
    /\ Cardinality(SentTo(UploadURL)) <= 1

\* response i ended the call with an HTTPError: nothing was sent after it and
\* nothing is returned
EndsInHTTPError(i) ==
    /\ i = Len(served)
    /\ Len(wire) = i
    /\ pc \in {"done", "returned"}
    /\ result = Raised("HTTPError")

\* C10 as stated: in upload_file a non-2xx response in either step is raised
\* as a transport error and never retried; after a failed step 1 the step-2
\* POST is never issued, and no result is returned after a failure.
C10_Non2xxRaised ==
    call.function = "upload_file" =>
       /\ UploadNeverRetries
       /\ \A i \in DOMAIN served :
             (served[i].answered /\ ~(served[i].status \in 200..299))
             => EndsInHTTPError(i)

\* C10, amended: the same for a 4xx or 5xx response.
C10_4xx5xxRaised ==
    call.function = "upload_file" =>
       /\ UploadNeverRetries
       /\ \A i \in DOMAIN served :
             (served[i].answered /\ served[i].status \in 400..599)
             => EndsInHTTPError(i)

C10_Witness ==
    /\ call.function = "upload_file"
    /\ Len(served) = 2
    /\ served[2].answered
    /\ served[2].status = 500
    /\ result = Raised("HTTPError")

\* C11: upload_file called with headers that hold the authorization entry and
\* with data that has no 'local_file' entry, or with no data at all, raises
\* ValueError before any HTTP request is issued.
C11_ValueErrorWithoutLocalFile ==
    (/\ call.function = "upload_file"
     /\ pc # "upload_file"
     /\ DictHas(UploadArgs.headers.items, "Authorization")
     /\ ~DictHas(UploadArgs.data.items, "local_file"))
    => (result = Raised("ValueError") /\ wire = <<>>)

\* the URL of the i-th request of a get_all_pages call: the URL it was called
\* with, then the next links of the chain
ChainURL(i) == IF i = 1 THEN call.url ELSE PageURL(i)

\* C12: against a chain of N pages get_all_pages sends GET requests to page 1,
\* page 2, ... in turn, each URL once; it sends a request after a response
\* only when that response carried a next link, it returns as soon as a
\* response carries none, and when it returns it has sent exactly N requests.
C12_StopsAtLastPage ==
    call.function = "get_all_pages" =>
       /\ Len(wire) <= Len(pages)
       /\ \A i \in DOMAIN wire : wire[i].verb = "GET" /\ wire[i].url = ChainURL(i)
       /\ \A i, j \in DOMAIN wire : i # j => wire[i].url # wire[j].url
       /\ \A i \in DOMAIN served :
             (i < Len(wire) \/ pc = "get_all_pages_loop")
             => (served[i].answered /\ served[i].next # <<>>)
       /\ (/\ served # <<>>
           /\ served[Len(served)].answered
           /\ served[Len(served)].body.kind # "notjson"
           /\ served[Len(served)].next = <<>>)
          => (pc = "done" /\ result.kind = "return")
       /\ result.kind = "return" =>
             /\ Len(wire) = Len(pages)
             /\ served[Len(served)].next = <<>>

C12_Witness ==
    /\ call.function = "get_all_pages"
    /\ pc = "done"
    /\ result.kind = "return"
    /\ Len(pages) = 3
    /\ Len(wire) = 3

\* C27: get_all_pages sends the caller's parameter mapping only with the
\* first request, which goes to the URL it was called with; every later
\* request goes to the URL of the next link of the response before it, with
\* an empty parameter mapping; all requests carry the caller's headers.
C27_ParamsFirstRequestOnly ==
    call.function = "get_all_pages" =>
       LET c == calls[Len(calls)]
       IN \A i \in DOMAIN wire :
             /\ wire[i].headers = c.headers
             /\ wire[i].headers = wire[1].headers
             /\ IF i = 1
                THEN /\ wire[i].url = c.url
                     /\ wire[i].params = IF c.params.type = "none" THEN DictObj(<<>>)
                                         ELSE c.params
                ELSE /\ served[i - 1].answered
                     /\ served[i - 1].next # <<>>
                     /\ wire[i].url = served[i - 1].next
                     /\ wire[i].params = DictObj(<<>>)

\* three requests of a call with a parameter: the second and the third
\* without it
C27_Witness ==
    /\ call.function = "get_all_pages"
    /\ pc = "done"
    /\ Len(wire) = 3
    /\ calls[Len(calls)].params.items = << <<"k1", Scalar("v1")>> >>
    /\ wire[1].params.items = << <<"k1", Scalar("v1")>> >>
    /\ wire[2].params.items = <<>>
    /\ wire[3].params.items = <<>>
    /\ wire[3].url = PageURL(3)
    /\ DictHas(wire[3].headers.items, "Authorization")

\* page i of the running get_all_pages call failed: no response, or a
\* response with a status outside 2xx
PageFailed(i) == ~served[i].answered \/ ~(served[i].status \in 200..299)

\* C13: when the request for some page fails, get_all_pages sends nothing
\* more (no retry, no further page) and returns no list: it ends by raising.
C13_FailurePropagates ==
    call.function = "get_all_pages" =>
       \A i \in DOMAIN served :
          PageFailed(i) =>
             /\ Len(wire) = i
             /\ pc = "done"
             /\ result.kind = "raise"

-----------------------------------------------------------------------------
(* Properties of progress *)

\* response i of a progress query reports a state in which the job is over
ProgressOver(i) ==
    LET ws == DictGet(served[i].body.items, "workflow_state")
    IN ws # "queued" /\ ws # "running"

\* response i was yielded: the server answered and raise_for_status let it by
ProgressYielded(i) == served[i].answered /\ served[i].status < 400

C17_YieldsUntilOver ==
    call.function = "progress" =>
       /\ Len(wire) = Len(served)
       /\ \A i \in DOMAIN wire : wire[i].verb = "GET" /\ wire[i].url = call.url
       /\ \A i \in DOMAIN served :
             i < Len(served) => (ProgressYielded(i) /\ ~ProgressOver(i))
       /\ pc = "progress_yielded" =>
             /\ loc.polls = Len(served)
             /\ ProgressYielded(Len(served))
             /\ result = [kind |-> "yield", exc |-> "",
                          val |-> served[Len(served)].body]
       /\ result = Raised("StopIteration") =>
             /\ pc = "done"
             /\ served # <<>>
             /\ ProgressYielded(Len(served))
             /\ ProgressOver(Len(served))

\* the latest result yielded reports that the job is over
YieldedOver ==
    /\ call.function = "progress"
    /\ pc = "progress_yielded"
    /\ ProgressOver(Len(served))

\* C17: progress sends one query per next() and yields the JSON of each, in
\* order; every result yielded before the latest reports 'queued' or
\* 'running'; the iterator ends, with no further query, at the next() after
\* the first result that reports another state, and only then; and a consumer
\* that keeps pulling after such a result reaches that end.
C17_ProgressEnds ==
    /\ []C17_YieldsUntilOver
    /\ [][YieldedOver => (result' = Raised("StopIteration") /\ wire' = wire)]_vars
    /\ (YieldedOver ~> (pc = "done" /\ result = Raised("StopIteration")))

\* two results that report a job in progress, then one that reports it over
C17_Witness ==
    /\ call.function = "progress"
    /\ pc = "done"
    /\ result = Raised("StopIteration")
    /\ Len(served) = 3
    /\ DictGet(served[2].body.items, "workflow_state") = "running"

-----------------------------------------------------------------------------
(* Properties of the module's globals *)

\* C14: read_access_token raises nothing; when the file is absent, unreadable
\* or undecodable TOKEN keeps the value it had (the placeholder when it was
\* never set); when the file is read TOKEN is its content without the newline
\* characters at its end, and with everything else of the content.
C14_TokenFromFile ==
    token_file.n > 0 =>
       LET content == token_file.content
       IN /\ ~token_file.raised
          /\ token_file.status # "ok" =>
                /\ TOKEN = token_file.before
                /\ token_file.n = 1 => TOKEN = InvalidToken
          /\ token_file.status = "ok" =>
                \E k \in 0..Len(content) :
                   /\ \A i \in (k + 1)..Len(content) : content[i] = NL
                   /\ k > 0 => content[k] # NL
                   /\ TOKEN = Str(SubSeq(content, 1, k))

\* a token was read from the file "t\nk \n", a builder took it as its default,
\* and a later call that finds no file has left it in place
C14_Witness ==
    /\ token_file.n = 2
    /\ token_file.status = "absent"
    /\ TOKEN = token_file.before
    /\ TOKEN = Str(<<"t", NL, "k", " ">>)
    /\ req.kind # "none"
    /\ req.token = TOKEN

\* a step of read_access_token: it is counted in token_file
ReadsToken == token_file'.n = token_file.n + 1

\* C15: no step of a builder operation, a transport function or an endpoint
\* function changes BASE_URL, TOKEN or any other global name of the module;
\* TOKEN changes in steps of read_access_token only.
C15_GlobalsImmutable ==
    [][/\ BASE_URL' = BASE_URL
       /\ HAS_PANDOC' = HAS_PANDOC
       /\ THIS_YEAR' = THIS_YEAR
       /\ ReadsToken \/ TOKEN' = TOKEN]_vars

\* the token file was read; a builder made with a token of its own has been
\* submitted and has returned; TOKEN is what the file gave
C15_Witness ==
    /\ token_file.n > 0
    /\ TOKEN = "tk"
    /\ BASE_URL = DefaultBaseURL
    /\ req.kind = "RequestWithData"
    /\ req.token = "tok"
    /\ last.op = "add_data"
    /\ pc = "returned"
    /\ wire # <<>>

\* the pairs the latest operation on a RequestOrderedData adds to the data
PairsAdded ==
    CASE last.op = "ordered_add_data" -> << <<last.key, last.value>> >>
      [] last.op = "ordered_add_optional_data" ->
           IF last.value = PyNone THEN <<>> ELSE << <<last.key, last.value>> >>
      [] last.op = "ordered_add_data_dict" -> last.hash
      [] OTHER -> <<>>

\* C28: the data of a RequestOrderedData is a sequence of (key, value) pairs;
\* each add_data, add_optional_data with a value other than None and
\* add_data_dict leaves the data it found in place, pairs with a repeated key
\* included, and puts its own pairs behind them in the order given;
\* add_optional_data with None and the operations on params leave the data
\* as it was.  The data is thus the concatenation of the added pairs in call
\* order.
C28_OrderedDataConcatenates ==
    req.kind = "RequestOrderedData" =>
       /\ heap[req.stuff["data"]].type = "list"
       /\ last.op = "none" => Stored("data") = <<>>
       /\ last.op # "none" => Stored("data") = last.data \o PairsAdded
       /\ Len(Stored("data")) >= Len(last.data)
       /\ (last.op = "ordered_add_optional_data" /\ last.value = PyNone)
             => Stored("data") = last.data

\* a third pair under a key the data already holds with another value
C28_Witness ==
    /\ req.kind = "RequestOrderedData"
    /\ last.op = "ordered_add_data"
    /\ last.key = "k1"
    /\ last.value = Scalar("v2")
    /\ last.data = << <<"k1", Scalar("v1")>>, <<"k2", Scalar("v1")>> >>
    /\ Stored("data") = << <<"k1", Scalar("v1")>>, <<"k2", Scalar("v1")>>,
                           <<"k1", Scalar("v2")>> >>

-----------------------------------------------------------------------------
(* Properties of the endpoint functions *)

\* the arguments select a single assignment, a single student, every student
SingleAssignment(a) == a.assignment # PyNone /\ ~IsList(a.assignments)
SingleStudent(a) == a.student # PyNone /\ ~IsList(a.students)
EveryStudent(a) == a.student = PyNone /\ a.students = PyNone

CourseURL(a) == DefaultBaseURL \o <<"api/v1/courses/", a.course.s>>

\* C16: get_submissions requests, for a single assignment and a single
\* student, /api/v1/courses/{course}/assignments/{assignment}/submissions/
\* {student}; for a single assignment and no selection of students,
\* /api/v1/courses/{course}/assignments/{assignment}/submissions; otherwise
\* /api/v1/courses/{course}/students/submissions with student_ids[] (and
\* assignment_ids[] when assignments are selected) as parameters.
C16_SubmissionsEndpoint ==
    (frame.function = "get_submissions" /\ calls # <<>>) =>
       LET a == frame.args
           c == calls[1]
       IN IF SingleAssignment(a) /\ SingleStudent(a)
          THEN c.url = CourseURL(a) \o <<"/assignments/", a.assignment.s,
                                         "/submissions/", a.student.s>>
          ELSE IF SingleAssignment(a) /\ EveryStudent(a)
          THEN c.url = CourseURL(a) \o <<"/assignments/", a.assignment.s,
                                         "/submissions">>
          ELSE /\ c.url = CourseURL(a) \o <<"/students/submissions">>
               /\ DictHas(c.params.items, "student_ids[]")
               /\ (a.assignment # PyNone \/ a.assignments # PyNone)
                  => DictHas(c.params.items, "assignment_ids[]")

\* how many times x occurs in the Python list xs
Occurrences(x, xs) == Cardinality({i \in DOMAIN xs.items : xs.items[i] = x})

\* single and many, as passed, against single2 and many2 after lines 1225-1228
\* (or 1232-1235): one of the two is None; an id given together with a list
\* is in the list, once more than before only if it was not there, behind the
\* items the list had
Normalised(single, many, single2, many2) ==
    /\ single2 = PyNone \/ many2 = PyNone
    /\ (single # PyNone /\ IsList(many)) =>
          /\ IsList(many2)
          /\ SubSeq(many2.items, 1, Len(many.items)) = many.items
          /\ Occurrences(single, many2) >= 1
          /\ Occurrences(single, many2) =
                IF Occurrences(single, many) = 0 THEN 1
                ELSE Occurrences(single, many)
          /\ Len(many2.items) <= Len(many.items) + 1
    /\ ~(single # PyNone /\ IsList(many)) => (single2 = single /\ many2 = many)

\* C25: in get_submissions, after the two normalisation steps, at least one of
\* student and students is None and at least one of assignment and assignments
\* is None, whatever ids and lists of ids are passed; a single id given
\* together with a list occurs in the list afterwards and is not added a
\* second time when it was already there.
C25_OneOfEachIsNone ==
    frame.function = "get_submissions" =>
       LET a == frame.args
           l == frame.locals
       IN /\ Normalised(a.student, a.students, l.student, l.students)
          /\ Normalised(a.assignment, a.assignments, l.assignment, l.assignments)

\* student 5 together with the list [5], assignment 7 together with [5]
C25_Witness ==
    /\ frame.function = "get_submissions"
    /\ frame.args.student = Scalar("5")
    /\ frame.args.students = PyList(<<Scalar("5")>>)
    /\ frame.locals.student = PyNone
    /\ frame.locals.students = PyList(<<Scalar("5")>>)
    /\ frame.args.assignment = Scalar("7")
    /\ frame.args.assignments = PyList(<<Scalar("5")>>)
    /\ frame.locals.assignments = PyList(<<Scalar("5"), Scalar("7")>>)
    /\ Len(wire) >= 1

\* C21: show_module_item sends the parameter 'include' with
\* 'content_details' when details is true and does not send it when details
\* is false.
C21_IncludeOnlyWhenAsked ==
    (frame.function = "show_module_item" /\ wire # <<>>) =>
       LET sent == wire[1].params.items
       IN /\ frame.args.details =>
                /\ DictHas(sent, "include")
                /\ DictGet(sent, "include") = PyList(<<Scalar("content_details")>>)
          /\ ~frame.args.details => ~DictHas(sent, "include")

\* the pair (key, value) is in the mapping d
Carries(d, key, value) == DictHas(d, key) /\ DictGet(d, key) = value

\* C22: create_discussion, for every combination of its arguments, issues
\* exactly one POST to api/v1/courses/{course}/discussion_topics carrying the
\* title, the message, is_announcement='0' and the discussion flags, with
\* 'group' and 'position_after' included only when they are not None, and
\* returns the server's result.
C22_OnePostPerDiscussion ==
    (frame.function = "create_discussion" /\ pc = "returned") =>
       LET a == frame.args
       IN /\ Len(wire) = 1
          /\ wire[1].verb = "POST"
          /\ wire[1].url = DefaultBaseURL
                             \o <<"api/v1/courses/", a.course.s, "/discussion_topics">>
          /\ Carries(wire[1].data.items, "title", a.title)
          /\ DictHas(wire[1].data.items, "message")
          /\ Carries(wire[1].data.items, "is_announcement", Scalar("0"))
          /\ Carries(wire[1].data.items, "published", PyBool(a.published))
          /\ DictHas(wire[1].data.items, "pinned")
          /\ DictHas(wire[1].data.items, "group") <=> a.group # PyNone
          /\ DictHas(wire[1].data.items, "position_after")
                <=> a.position_after # PyNone
          /\ ret = result

\* C23: list_calendar_events_between_dates issues a paginated GET to
\* api/v1/calendar_events.json carrying type=event, start_date, end_date and
\* context_codes[]=course_{course}, and returns the aggregated list of event
\* descriptions from all pages.
C23_EventsBetweenDates ==
    (frame.function = "list_calendar_events_between_dates" /\ pc = "returned") =>
       LET a == frame.args
       IN /\ wire # <<>>
          /\ wire[1].verb = "GET"
          /\ wire[1].url = DefaultBaseURL \o <<"api/v1/calendar_events.json">>
          /\ Carries(wire[1].params.items, "type", Scalar("event"))
          /\ Carries(wire[1].params.items, "start_date", a.start_date)
          /\ Carries(wire[1].params.items, "end_date", a.end_date)
          /\ Carries(wire[1].params.items, "context_codes[]",
                     Scalar("course_" \o a.course.s))
          /\ ret = result
          /\ ret.kind = "return" => Len(wire) = Len(pages)

\* C24: create_grading_standard called with grades g_1..g_n and cutoffs
\* c_1..c_(n-1) submits, by one POST, the ordered form data ('title', name)
\* followed, for i = 1..n in grade order, by ('grading_scheme_entry[][name]',
\* g_i) and right behind it ('grading_scheme_entry[][value]', c_i), the value
\* of the last grade being 0: 1 + 2n entries.
C24_GradingSchemeEntries ==
    (/\ frame.function = "create_grading_standard"
     /\ Len(frame.args.cutoffs.items) = Len(frame.args.grades.items) - 1) =>
       LET a == frame.args
           n == Len(a.grades.items)
           data == calls[1].data
       IN /\ Len(calls) = 1
          /\ calls[1].function = "post_to_json"
          /\ data.type = "list"
          /\ Len(data.items) = 1 + 2 * n
          /\ data.items[1] = <<"title", a.name>>
          /\ \A i \in 1..n :
                /\ data.items[2 * i] = <<"grading_scheme_entry[][name]",
                                         a.grades.items[i]>>
                /\ data.items[2 * i + 1] =
                      <<"grading_scheme_entry[][value]",
                        IF i < n THEN a.cutoffs.items[i] ELSE PyInt(0)>>
          /\ Len(wire) <= 1
          /\ \A k \in DOMAIN wire : wire[k].verb = "POST" /\ wire[k].data = data

\* three grades with two cutoffs, posted
C24_Witness ==
    /\ frame.function = "create_grading_standard"
    /\ Len(frame.args.grades.items) = 3
    /\ Len(frame.args.cutoffs.items) = 2
    /\ pc = "returned"
    /\ ret.kind = "return"
    /\ Len(wire) = 1
    /\ Len(wire[1].data.items) = 7
    /\ wire[1].data.items[7] = <<"grading_scheme_entry[][value]", PyInt(0)>>
    /\ wire[1].data.items[5] = <<"grading_scheme_entry[][value]", PyInt(80)>>

\* what find_user_by_login_id gave to enroll_user_by_login_id
Lookup == frame.locals.json1

\* the lookup returned a profile without 'Error', with the login_id asked
\* for and with an id
ProfileFound ==
    /\ Lookup.kind = "return"
    /\ Lookup.val.kind = "dict"
    /\ ~DictHas(Lookup.val.items, "Error")
    /\ DictHas(Lookup.val.items, "login_id")
    /\ DictGet(Lookup.val.items, "login_id") = frame.args.login_id.s
    /\ DictHas(Lookup.val.items, "id")

EnrollmentPosts == {i \in DOMAIN wire : wire[i].verb = "POST"}

\* the lookup is over, and so is the call when ended is true
AfterLookup(ended) ==
    /\ frame.function = "enroll_user_by_login_id"
    /\ frame.locals.step # "lookup"
    /\ ended => pc = "returned"

\* the enrollment request is made if and only if the profile was found
EnrollsIffFound ==
    /\ AfterLookup(FALSE) => (Len(calls) = 2 <=> ProfileFound)
    /\ AfterLookup(TRUE) => (EnrollmentPosts # {} <=> ProfileFound)
    /\ (AfterLookup(FALSE) /\ Len(calls) = 2) =>
          /\ calls[2].function = "post_to_json"
          /\ calls[2].url = (IF frame.args.base.given
                             THEN frame.args.base.v \o <<"/">>
                             ELSE DefaultBaseURL)
                            \o <<"api/v1/courses/", frame.args.course.s,
                                 "/enrollments">>
          /\ DictGet(calls[2].data.items, "enrollment[user_id]")
                = Scalar(DictGet(Lookup.val.items, "id"))

\* the lookup returned a record with the key 'Error'
LookupFailed == Lookup.val.kind = "dict" /\ DictHas(Lookup.val.items, "Error")

IsErrorRecord(res) ==
    /\ res.kind = "return"
    /\ res.val.kind = "dict"
    /\ DictHas(res.val.items, "Error")

C19_UrlOrDomain ==
    frame.function = "create_external_tool" =>
       LET a == frame.args
       IN IF a.url = PyNone /\ a.domain = PyNone
          THEN /\ pc = "returned"
               /\ ret = Raised("ValueError")
               /\ calls = <<>>
               /\ wire = <<>>
          ELSE /\ Len(calls) = 1
               /\ calls[1].function = "post_to_json"
               /\ \A i \in DOMAIN wire : wire[i].data = calls[1].data
               /\ LET data == calls[1].data.items
                  IN IF a.url # PyNone
                     THEN /\ DictHas(data, "url")
                          /\ DictGet(data, "url") = a.url
                          /\ ~DictHas(data, "domain")
                     ELSE /\ DictHas(data, "domain")
                          /\ DictGet(data, "domain") = a.domain
                          /\ ~DictHas(data, "url")

\* url and domain are both given and the request has gone out
C19_Witness ==
    /\ frame.function = "create_external_tool"
    /\ frame.args.url # PyNone
    /\ frame.args.domain # PyNone
    /\ pc = "returned"
    /\ Len(wire) = 1
    /\ DictHas(wire[1].data.items, "url")

\* the day of entry i (0-based), counted from the day of start
SlotDay(i) == 7 * (i \div 2) + 2 * (i % 2)

\* the entries (0-based) of event_list that have a title, in list order
RECURSIVE TitledFrom(_, _)
TitledFrom(event_list, i) ==
    IF i >= Len(event_list) THEN <<>>
    ELSE (IF event_list[i + 1][1] # Scalar("") THEN <<i>> ELSE <<>>)
         \o TitledFrom(event_list, i + 1)

-----------------------------------------------------------------------------
(* Properties of submit *)

\* base and locashun joined by exactly one "/"
JoinedURL(base, locashun) ==
    LET b == IF base[Len(base)] = "/" THEN SubSeq(base, 1, Len(base) - 1) ELSE base
        l == IF locashun[1] = "/" THEN SubSeq(locashun, 2, Len(locashun))
             ELSE locashun
    IN b \o <<"/">> \o l

\* C7: submit invokes the builder's transport function exactly once, with the
\* joined URL, the params (and data, where the builder has data) as the add
\* operations left them, and the headers with the authorization entry; it
\* returns what the transport function returned.
C7_SubmitPassesAccumulated ==
    /\ Len(calls) = nsubmit
    /\ (call.via = "submit" /\ pc = call.function) =>
          LET c == calls[Len(calls)]
          IN /\ c.function = req.function
             /\ c.url = JoinedURL(req.base, req.locashun)
             /\ c.params = DictObj(Stored("params"))
             /\ c.data = IF req.kind = "Request" THEN NoneObj
                         ELSE IF req.kind = "RequestWithData"
                         THEN DictObj(Stored("data"))
                         ELSE ListObj(Stored("data"))
             /\ c.headers = DictObj(<< <<"Authorization",
                                         Scalar("Bearer " \o req.token)>> >>)
             /\ (last.op # "none" /\ last.which = "params") =>
                   c.params.items = NowMap
             /\ (last.op # "none" /\ last.which = "data") => c.data.items = NowMap
    /\ pc = "returned" => (ret = result /\ result.kind \in {"return", "raise"})

C7_Witness ==
    /\ pc = "returned"
    /\ req.kind = "RequestWithData"
    /\ req.function = "post_to_json"
    /\ calls[1].data.items # <<>>
    /\ calls[1].params.items # <<>>
    /\ ret.kind = "return"

\* what submit would pass to the transport function if it were called now
SubmitNow ==
    LET args == CASE req.kind = "Request" -> Request_submit(req)
                  [] req.kind = "RequestWithData" -> RequestWithData_submit(req)
                  [] req.kind = "RequestOrderedData" -> RequestOrderedData_submit(req)
    IN CallArgs(args.function, args.url, Snap(heap, args.params),
                Snap(heap, args.data), Snap(heap, args.headers))

\* C26: submit does not change the builder: whichever transport function the
\* builder was made with (get_all_pages, get_to_json, delete_to_json,
\* put_to_json, post_to_json, upload_file), once submit has been called, and
\* while and after the transport function runs, the builder's headers,
\* params and data are what they were when submit was called, so that a
\* second submit would pass on the same request as the first.
C26_SubmitLeavesBuilder ==
    (nsubmit = 1 /\ call.via = "submit") =>
       /\ Stored("headers") = calls[1].headers.items
       /\ Stored("params") = calls[1].params.items
       /\ req.kind # "Request" => Stored("data") = calls[1].data.items
       /\ SubmitNow = calls[1]

====
